---- MODULE Spec2Model ----
\* Verification model of jenkins-job-insight: the bounded-concurrency
\* executor (analyzer.run_parallel_with_limit), the recursive build walker
\* (analyzer.analyze_job / analyze_child_job / analyze_single_test_failure)
\* and the direct failure endpoint (main.analyze_failures).
EXTENDS Integers, Sequences, FiniteSets, TLC

\* ---------------------------------------------------------------------
\* Bounds of the model (not program constants)
\* ---------------------------------------------------------------------
\* longest list of coroutines handed to a stand-alone executor call
MaxBatch == 3
\* largest max_concurrency argument of a stand-alone executor call
MaxLimit == 2
\* longest failure list of one POST /analyze-failures request
MaxFailures == 3
\* number of builds the CI collaborator knows; build 1 is the root build
NBuilds == 3
\* longest list of failed children one build reports
MaxChildren == 2
\* longest list of failed tests in one build's test report
MaxTests == 2
\* most coroutines (analyze_child_job and analyze_single_test_failure
\* calls together) one run hands to the executor
MaxCoroutines == 4
\* longest path of nested analyze_child_job calls that is tracked
MaxPath == 5
\* longest response text, in tokens, given to the normalizer as it is
MaxText == 4
\* longest prose, in tokens, before and after a fenced block
MaxProse == 2
\* most failed children of the root build in the wide pipeline
WideChildren == 3

\* ---------------------------------------------------------------------
\* Program constants
\* ---------------------------------------------------------------------
\* analyzer.py:27
MAX_CONCURRENT_AI_CALLS == 10
\* analyzer.py:1043 (and the default of analyze_child_job, analyzer.py:730)
max_depth == 3

\* ---------------------------------------------------------------------
\* State
\* ---------------------------------------------------------------------
VARIABLES
    mode,      \* which entry point this behaviour exercises
    batch,     \* run_parallel_with_limit calls: batch id -> call state
    env,       \* process configuration read at import time (main.py:44-45)
    af,        \* POST /analyze-failures: request, progress, store, response
    ci,        \* what the CI collaborator holds for every build
    root,      \* the analyze_job call of the run
    node,      \* analyze_child_job calls: path of child indices -> call state
    call,      \* one function of the program applied to one input
    jira       \* enrich_with_jira_matches: reports, searches, progress

vars == <<mode, batch, env, af, ci, root, node, call, jira>>

\* ---------------------------------------------------------------------
\* Small helpers
\* ---------------------------------------------------------------------
SeqsUpTo(S, n) == UNION {[1..k -> S] : k \in 0..n}

Range(s) == {s[i] : i \in DOMAIN s}

\* ---------------------------------------------------------------------
\* run_parallel_with_limit (analyzer.py:36-58)
\* ---------------------------------------------------------------------
\* A value handed back by one unit: either what the coroutine returned or
\* the exception it raised.
Returned(v) == [exc |-> FALSE, val |-> v]
Raised(e) == [exc |-> TRUE, val |-> e]

\* asyncio.Semaphore(max_concurrency): the counter starts at the limit.
Semaphore(max_concurrency) == max_concurrency

AcquireUnguarded(value) == TRUE
\* One slot shared by the batches of every nesting level.
CanAcquireShared(value) ==
    /\ value > 0
    /\ \A id \in DOMAIN batch : \A i \in DOMAIN batch[id].st :
          batch[id].st[i] # "running"
\* `async with semaphore` enters only while the counter is positive.
CanAcquire(value) == value > 0

\* State of one call right after gather() has wrapped every coroutine in
\* bounded(): every unit is a task waiting to enter the semaphore.
run_parallel_with_limit(coroutines, max_concurrency) ==
    [ coros     |-> coroutines,
      limit     |-> max_concurrency,
      semaphore |-> Semaphore(max_concurrency),
      st        |-> [i \in DOMAIN coroutines |-> "waiting"],
      out       |-> [i \in DOMAIN coroutines |-> Returned("none")],
      order     |-> << >>,
      ret       |-> [state |-> "pending", results |-> << >>] ]

\* bounded(coro), first half: `async with semaphore:` acquired.
bounded_enter(b, i) ==
    [b EXCEPT !.st[i] = "running", !.semaphore = @ - 1]

\* bounded(coro), second half: the coroutine returned or raised; the
\* context manager releases the semaphore either way.
bounded_exit(b, i, outcome) ==
    [b EXCEPT !.st[i] = "done", !.out[i] = outcome,
              !.semaphore = @ + 1, !.order = Append(@, i)]

GatherPropagating(b) ==
    IF \E i \in DOMAIN b.out : b.out[i].exc
    THEN [state |-> "raised", results |-> << >>]
    ELSE [state |-> "returned", results |-> [i \in DOMAIN b.out |-> b.out[i]]]
GatherCompletionOrder(b) ==
    [state |-> "returned",
     results |-> [k \in DOMAIN b.order |-> b.out[b.order[k]]]]
\* asyncio.gather(*..., return_exceptions=True): one entry per awaitable,
\* in the order the awaitables were passed; a raised exception is an entry
\* of the list and the call itself returns.
gather(b) ==
    [state |-> "returned", results |-> [i \in DOMAIN b.out |-> b.out[i]]]

RunningIn(b) == {i \in DOMAIN b.st : b.st[i] = "running"}
WaitingIn(b) == {i \in DOMAIN b.st : b.st[i] = "waiting"}
AllDone(b) == \A i \in DOMAIN b.st : b.st[i] = "done"

\* ---------------------------------------------------------------------
\* Stand-alone executor call: run_parallel_with_limit(units, limit)
\* ---------------------------------------------------------------------
\* The units of a stand-alone call: coroutines that return a value of
\* their own or raise.
PlainUnits ==
    { [kind |-> "plain", result |-> Returned("a")],
      [kind |-> "plain", result |-> Returned("b")],
      [kind |-> "plain", result |-> Raised("boom")] }

CallId == <<"call">>

NoEnv == [AI_PROVIDER |-> "", AI_MODEL |-> ""]
NoRequest == [pc |-> "none"]
NoCI == [meta |-> << >>, console |-> << >>, tests |-> << >>]
NoRoot == [pc |-> "none"]
NoCall == [fn |-> "none"]
NoJira == [pc |-> "none"]

InitExec ==
    /\ mode = "exec"
    /\ call = NoCall
    /\ jira = NoJira
    /\ env = NoEnv
    /\ af = NoRequest
    /\ ci = NoCI
    /\ root = NoRoot
    /\ node = << >>
    /\ \E units \in SeqsUpTo(PlainUnits, MaxBatch), limit \in 1..MaxLimit :
          batch = (CallId :> run_parallel_with_limit(units, limit))

\* A waiting unit enters the semaphore.
Acquire(id, i) ==
    /\ id \in DOMAIN batch
    /\ i \in DOMAIN batch[id].st
    /\ batch[id].st[i] = "waiting"
    /\ CanAcquire(batch[id].semaphore)
    /\ batch' = [batch EXCEPT ![id] = bounded_enter(@, i)]
    /\ UNCHANGED <<call, jira, mode, env, af, ci, root, node>>

\* A running plain unit completes with its own result.
FinishPlain(id, i) ==
    /\ id \in DOMAIN batch
    /\ i \in DOMAIN batch[id].st
    /\ batch[id].st[i] = "running"
    /\ batch[id].coros[i].kind = "plain"
    /\ batch' = [batch EXCEPT ![id] = bounded_exit(@, i, batch[id].coros[i].result)]
    /\ UNCHANGED <<call, jira, mode, env, af, ci, root, node>>

\* gather() resolves once every unit is done; the call returns the list.
Return(id) ==
    /\ id \in DOMAIN batch
    /\ batch[id].ret.state = "pending"
    /\ AllDone(batch[id])
    /\ batch' = [batch EXCEPT ![id].ret = gather(batch[id])]
    /\ UNCHANGED <<call, jira, mode, env, af, ci, root, node>>

ExecAcquire == \E i \in 1..(MaxBatch + 1) : Acquire(CallId, i)
ExecFinish == \E i \in 1..(MaxBatch + 1) : FinishPlain(CallId, i)
ExecReturn == mode = "exec" /\ Return(CallId)

NextExec == ExecAcquire \/ ExecFinish \/ ExecReturn

SpecExec == InitExec /\ [][NextExec]_vars

\* ---------------------------------------------------------------------
\* Test failures and their signatures
\* ---------------------------------------------------------------------
\* models.TestFailure: the failures requests and test reports are made of.
\* test_foo and test_baz fail with the same message and the same first
\* five stack lines (they differ in the sixth); test_bar fails otherwise.
TestFailures ==
    { [test_name |-> "test_foo", error_message |-> "assert False",
       stack_trace |-> <<"l1", "l2", "l3", "l4", "l5", "foo">>],
      [test_name |-> "test_baz", error_message |-> "assert False",
       stack_trace |-> <<"l1", "l2", "l3", "l4", "l5", "baz">>],
      [test_name |-> "test_bar", error_message |-> "KeyError: x",
       stack_trace |-> <<"l9">>] }

\* number of leading stack-trace lines that enter the signature
SIGNATURE_STACK_LINES == 5

FirstLines(lines, n) == SubSeq(lines, 1, IF Len(lines) < n THEN Len(lines) ELSE n)

RECURSIVE JoinWith(_, _)
JoinWith(sep, parts) ==
    IF parts = << >> THEN << >>
    ELSE IF Len(parts) = 1 THEN <<parts[1]>>
    ELSE <<parts[1], sep>> \o JoinWith(sep, Tail(parts))

\* get_failure_signature: the digest of error_message + "|" + the first
\* five stack lines joined by "|". The digest is kept as the digested text.
get_failure_signature(failure) ==
    <<failure.error_message, "|">>
        \o JoinWith("|", FirstLines(failure.stack_trace, SIGNATURE_STACK_LINES))

\* ---------------------------------------------------------------------
\* POST /analyze-failures (main.py:308-407)
\* ---------------------------------------------------------------------
\* groups[sig].append(failure) on a defaultdict(list): the groups keep the
\* order in which their signature first appeared.
GroupIndex(groups, sig) ==
    IF \E k \in DOMAIN groups : groups[k].sig = sig
    THEN CHOOSE k \in DOMAIN groups : groups[k].sig = sig
    ELSE 0

AddFailureOverwriting(groups, failure) ==
    LET sig == get_failure_signature(failure)
        k == GroupIndex(groups, sig)
    IN IF k = 0
       THEN Append(groups, [sig |-> sig, failures |-> <<failure>>])
       ELSE [groups EXCEPT ![k].failures = <<failure>>]
AddFailure(groups, failure) ==
    LET sig == get_failure_signature(failure)
        k == GroupIndex(groups, sig)
    IN IF k = 0
       THEN Append(groups, [sig |-> sig, failures |-> <<failure>>])
       ELSE [groups EXCEPT ![k].failures = Append(@, failure)]

RECURSIVE GroupFailures(_, _)
GroupFailures(groups, failures) ==
    IF failures = << >> THEN groups
    ELSE GroupFailures(AddFailure(groups, Head(failures)), Tail(failures))

\* provider = ai_provider or AI_PROVIDER; model = ai_model or AI_MODEL
ResolveProviderDefault(body) ==
    IF body.ai_provider # "" THEN body.ai_provider ELSE "claude"

ResolveProvider(body) ==
    IF body.ai_provider # "" THEN body.ai_provider ELSE env.AI_PROVIDER
ResolveModel(body) ==
    IF body.ai_model # "" THEN body.ai_model ELSE env.AI_MODEL

\* models.AnalysisDetail values an analysis call can produce.
\* The keywords of a ProductBugReport (numbered in string order) are part
\* of what the analysis returns; its matches start empty.
AnalysisDetails ==
    { [classification |-> "CODE ISSUE", details |-> "fix the test",
       code_fix |-> TRUE, product_bug_report |-> FALSE,
       jira_search_keywords |-> << >>, jira_matches |-> << >>],
      [classification |-> "", details |-> "backend error",
       code_fix |-> FALSE, product_bug_report |-> FALSE,
       jira_search_keywords |-> << >>, jira_matches |-> << >>] }
      \cup
    { [classification |-> "PRODUCT BUG", details |-> "product is broken",
       code_fix |-> FALSE, product_bug_report |-> TRUE,
       jira_search_keywords |-> k, jira_matches |-> << >>] :
         k \in {<<1, 2>>, <<2, 1>>} }

\* analyze_failure_group: one analysis for the group, applied to every
\* failure of the group.
analyze_failure_group(failures, detail) ==
    [i \in DOMAIN failures |->
        [test_name |-> failures[i].test_name,
         error |-> failures[i].error_message,
         analysis |-> detail]]

GroupOutcomes(failures) ==
    {Returned(analyze_failure_group(failures, d)) : d \in AnalysisDetails}
        \cup {Raised("RuntimeError")}

\* all_analyses: results flattened in order, exceptions skipped.
RECURSIVE Flatten(_)
Flatten(results) ==
    IF results = << >> THEN << >>
    ELSE (IF Head(results).exc THEN << >> ELSE Head(results).val)
            \o Flatten(Tail(results))

FailuresId == <<"failures">>

Requests ==
    [ failures    : SeqsUpTo(TestFailures, MaxFailures),
      ai_provider : {"", "claude"},
      ai_model    : {"", "test-model"} ]

InitFailures ==
    /\ mode = "failures"
    /\ call = NoCall
    /\ jira = NoJira
    /\ env \in [AI_PROVIDER : {"", "gemini"}, AI_MODEL : {"", "env-model"}]
    /\ batch = << >>
    /\ ci = NoCI
    /\ root = NoRoot
    /\ node = << >>
    /\ \E body \in Requests :
          af = [pc |-> "received", body |-> body, http |-> 0,
                stored |-> "absent", groups |-> << >>, all_analyses |-> << >>,
                repo |-> "none", response |-> [status |-> "none"]]

save_resultKeep(stored, status) == stored

\* storage.save_result: INSERT OR REPLACE of the record of the job.
save_result(stored, status) == status

update_statusKeep(stored, status) == stored

\* storage.update_status(job_id, status, result): the record of the job
\* takes the status.
update_status(stored, status) == status

SummaryAllAnalyzed(failures, groups, all_analyses) ==
    [ kind |-> "analyzed", submitted |-> Len(failures),
      unique |-> Len(groups), analyzed |-> Len(failures) ]

\* "Analyzed N test failures (U unique errors). K analyzed successfully."
Summary(failures, groups, all_analyses) ==
    [ kind |-> "analyzed", submitted |-> Len(failures),
      unique |-> Len(groups), analyzed |-> Len(all_analyses) ]

\* Lines 394-404: the answer of the except branch.
FailedResult(body, e) ==
    [ status |-> "failed", summary |-> [kind |-> "failed", error |-> e],
      failures |-> << >>,
      ai_provider |-> ResolveProvider(body), ai_model |-> ResolveModel(body) ]

\* Lines 318-321: an empty failure list or a missing provider/model is
\* answered with 400 before anything is stored.
AfReject ==
    /\ mode = "failures"
    /\ af.pc = "received"
    /\ \/ af.body.failures = << >>
       \/ ResolveProvider(af.body) = ""
       \/ ResolveModel(af.body) = ""
    /\ af' = [af EXCEPT !.pc = "done", !.http = 400]
    /\ UNCHANGED <<call, jira, mode, batch, env, ci, root, node>>

\* Lines 323-339: the pending record is saved and the failures grouped.
AfGroup ==
    /\ mode = "failures"
    /\ af.pc = "received"
    /\ af.body.failures # << >>
    /\ ResolveProvider(af.body) # ""
    /\ ResolveModel(af.body) # ""
    /\ af' = [af EXCEPT !.pc = "grouped", !.stored = save_result(@, "pending"),
                        !.groups = GroupFailures(<< >>, af.body.failures)]
    /\ UNCHANGED <<call, jira, mode, batch, env, ci, root, node>>

\* Lines 341-363: status running, optional clone, one coroutine per group
\* handed to run_parallel_with_limit with the default limit.
AfDispatch ==
    /\ mode = "failures"
    /\ af.pc = "grouped"
    /\ \E repo \in {"none", "cloned"} :
          af' = [af EXCEPT !.pc = "awaiting",
                           !.stored = update_status(@, "running"), !.repo = repo]
    /\ batch' = (FailuresId :>
          run_parallel_with_limit(
              [k \in DOMAIN af.groups |->
                  [kind |-> "group", failures |-> af.groups[k].failures]],
              MAX_CONCURRENT_AI_CALLS))
    /\ UNCHANGED <<call, jira, mode, env, ci, root, node>>

\* Lines 394-407: an exception inside the try block (here: the clone
\* fails) is answered with status failed, stored as failed, and the
\* repository manager is cleaned up.
AfCloneFails ==
    /\ mode = "failures"
    /\ af.pc = "grouped"
    /\ af' = [af EXCEPT !.pc = "done", !.http = 200,
                        !.stored = update_status(@, "failed"),
                        !.repo = "none",
                        !.response = FailedResult(af.body, "clone")]
    /\ UNCHANGED <<call, jira, mode, batch, env, ci, root, node>>

\* One running group unit finishes: analyze_failure_group returns the
\* analyses of its group or raises.
FinishGroup(i) ==
    /\ FailuresId \in DOMAIN batch
    /\ i \in DOMAIN batch[FailuresId].st
    /\ batch[FailuresId].st[i] = "running"
    /\ \E outcome \in GroupOutcomes(batch[FailuresId].coros[i].failures) :
          batch' = [batch EXCEPT ![FailuresId] = bounded_exit(@, i, outcome)]
    /\ UNCHANGED <<call, jira, mode, env, af, ci, root, node>>

AfAcquire == \E i \in 1..(MaxFailures + 1) : Acquire(FailuresId, i)
AfFinish == \E i \in 1..(MaxFailures + 1) : FinishGroup(i)
AfReturn == mode = "failures" /\ Return(FailuresId)


\* ---------------------------------------------------------------------
\* The CI collaborator and the analysis backend
\* ---------------------------------------------------------------------
Builds == 1..NBuilds
RootBuild == 1
ChildLists == SeqsUpTo(Builds, MaxChildren)
ConsoleLists == SeqsUpTo(Builds, 1)
\* A test report names each failed test once; test_foo is the first.
TestLists ==
    { s \in SeqsUpTo(TestFailures, MaxTests) :
        /\ \A i, j \in DOMAIN s : i # j => s[i].test_name # s[j].test_name
        /\ s # << >> => s[1].test_name = "test_foo" }

DetectChildrenMerged(data, job) == data.meta[job] \o data.console[job]

\* failed_children = extract_failed_child_jobs(build_info); only when that
\* list is empty, extract_failed_child_jobs_from_console(console_output).
\* data.meta[job] and data.console[job] are what the two extractors find.
DetectChildren(data, job) ==
    IF data.meta[job] # << >> THEN data.meta[job] ELSE data.console[job]

\* extract_failures_from_test_report(test_report) if test_report else []
extract_failures_from_test_report(data, job) == data.tests[job]

DepthNeverReached(depth, limit) == FALSE
DepthOffByOne(depth, limit) == depth > limit
\* if depth >= max_depth
DepthReached(depth, limit) == depth >= limit

\* Size of the run a data set asks for: the analyze_child_job calls and the
\* analyze_single_test_failure calls of the whole walk when no fetch fails.
RECURSIVE NodesBelow(_, _, _), NodesOfList(_, _, _)
NodesBelow(data, job, depth) ==
    IF depth >= max_depth THEN 1
    ELSE 1 + NodesOfList(data, DetectChildren(data, job), depth + 1)
NodesOfList(data, kids, depth) ==
    IF kids = << >> THEN 0
    ELSE NodesBelow(data, Head(kids), depth) + NodesOfList(data, Tail(kids), depth)

RECURSIVE UnitsBelow(_, _, _), UnitsOfList(_, _, _)
UnitsBelow(data, job, depth) ==
    IF depth >= max_depth THEN 0
    ELSE IF DetectChildren(data, job) = << >> THEN Len(data.tests[job])
    ELSE UnitsOfList(data, DetectChildren(data, job), depth + 1)
UnitsOfList(data, kids, depth) ==
    IF kids = << >> THEN 0
    ELSE UnitsBelow(data, Head(kids), depth) + UnitsOfList(data, Tail(kids), depth)

RunNodes(data) == NodesOfList(data, DetectChildren(data, RootBuild), 0)
RunUnits(data) ==
    Len(data.tests[RootBuild]) + UnitsOfList(data, DetectChildren(data, RootBuild), 0)

\* Builds the walk can reach from the root build.
RECURSIVE Reach(_, _)
Reach(data, seen) ==
    LET more == seen \cup UNION {Range(DetectChildren(data, b)) : b \in seen}
    IN IF more = seen THEN seen ELSE Reach(data, more)

\* What the collaborator holds for one build: the console is consulted
\* only when the build info names no failed child.
BuildData ==
    { d \in [meta : ChildLists, console : ConsoleLists, tests : TestLists] :
        d.meta # << >> => d.console = << >> }

Assemble(d) ==
    [ meta    |-> [b \in Builds |-> d[b].meta],
      console |-> [b \in Builds |-> d[b].console],
      tests   |-> [b \in Builds |-> d[b].tests] ]

\* Data the walk never looks at is left empty, and the builds are numbered
\* in the order the walk can reach them.
Trimmed(data) ==
    LET reach == Reach(data, {RootBuild}) IN
    /\ \E k \in Builds : reach = 1..k
    /\ \A b \in Builds :
          /\ b \notin reach =>
                data.meta[b] = << >> /\ data.console[b] = << >> /\ data.tests[b] = << >>
          /\ (b # RootBuild /\ DetectChildren(data, b) # << >>) => data.tests[b] = << >>

CIData ==
    { data \in {Assemble(d) : d \in [Builds -> BuildData]} :
        /\ Trimmed(data)
        /\ RunNodes(data) + RunUnits(data) <= MaxCoroutines }

\* ---------------------------------------------------------------------
\* Results (models.py as used by analyzer.py)
\* ---------------------------------------------------------------------
FailureAnalysis(test_name, error, classification, explanation, fix, bug) ==
    [ test_name |-> test_name, error |-> error,
      classification |-> classification, explanation |-> explanation,
      fix_suggestion |-> fix, bug_report |-> bug ]

ChildJobAnalysis(job, summary, failures, failed_children, note) ==
    [ job |-> job, summary |-> summary, failures |-> failures,
      failed_children |-> failed_children, note |-> note ]

NoSummary == [kind |-> "none"]

CountClass(failures, cls) ==
    Cardinality({i \in DOMAIN failures : failures[i].classification = cls})

RECURSIVE CountChildFailures(_, _)
\* for child in child_analyses: for f in child.failures: count by class
CountChildFailures(children, code) ==
    IF children = << >> THEN 0
    ELSE (IF code THEN CountClass(Head(children).failures, "code_issue")
          ELSE Len(Head(children).failures)
                 - CountClass(Head(children).failures, "code_issue"))
         + CountChildFailures(Tail(children), code)

\* "Pipeline failed due to N child job(s). Total: ..." (analyzer.py:829-843)
PipelineSummary(children) ==
    [ kind |-> "pipeline", child_jobs |-> Len(children),
      code_issues |-> CountChildFailures(children, TRUE),
      product_bugs |-> CountChildFailures(children, FALSE) ]

\* "Analyzed N test failure(s): ..." (analyzer.py:899-906)
TestsSummary(failures) ==
    [ kind |-> "tests", analyzed |-> Len(failures),
      code_issues |-> CountClass(failures, "code_issue"),
      product_bugs |-> CountClass(failures, "product_bug") ]

\* ---------------------------------------------------------------------
\* Backend responses and their parsing (analyzer.py:628-720)
\* ---------------------------------------------------------------------
VALID_CLASSIFICATIONS == {"code_issue", "product_bug"}

\* What the backend may answer for one failure: text without JSON, or a
\* JSON object for the failure.
ResponseObjects(name) ==
    { [test_name |-> name, error |-> "brief", classification |-> "code_issue",
       explanation |-> "test code is wrong", fix_suggestion |-> "change the test",
       bug_report |-> "None"],
      [test_name |-> name, error |-> "brief", classification |-> "product_bug",
       explanation |-> "product misbehaves", fix_suggestion |-> "None",
       bug_report |-> "bug"] }

\* Response text as a sequence of tokens: an opening brace, a closing
\* brace, a word of prose, the opening and closing line of a json fence, and Body(v) for what
\* stands between the outer braces of the JSON serialization of v.
LB == [c |-> "{"]
RB == [c |-> "}"]
W == [c |-> "w"]
FenceJson == [c |-> "fence json"]
FenceEnd == [c |-> "fence"]
Body(v) == [c |-> "body", v |-> v]
Serialize(v) == <<LB, Body(v), RB>>
EmptyDict == << >>

\* json.loads: the text is one JSON object or a JSONDecodeError is raised.
Loads(text) ==
    CASE text = <<LB, RB>> -> [ok |-> TRUE, data |-> EmptyDict]
      [] Len(text) = 3 /\ text[1] = LB /\ text[3] = RB /\ text[2].c = "body" ->
            [ok |-> TRUE, data |-> text[2].v]
      [] OTHER -> [ok |-> FALSE]

Positions(text, token) == {i \in DOMAIN text : text[i] = token}
MinOf(S) == CHOOSE x \in S : \A y \in S : x <= y
LastOf(S) == CHOOSE x \in S : \A y \in S : y <= x

\* re.search(r"\{.*\}", text, re.DOTALL): from the first opening brace to
\* the last closing brace after it; << >> when there is no match.
SearchBraces(text) ==
    IF Positions(text, LB) = {} THEN << >>
    ELSE LET i == MinOf(Positions(text, LB))
             closing == {j \in Positions(text, RB) : j > i}
         IN IF closing = {} THEN << >> ELSE SubSeq(text, i, LastOf(closing))

BackendRaised == [raised |-> TRUE]
NoJson == [raised |-> FALSE, text |-> <<W>>]
Json(data) == [raised |-> FALSE, text |-> Serialize(data)]

SingleResponses(name) ==
    {BackendRaised, NoJson} \cup {Json(o) : o \in ResponseObjects(name)}

\* What the backend may answer for a whole console: text without JSON, or
\* a JSON object with a summary and a list of failures.
ConsoleResponses ==
    {BackendRaised, NoJson}
    \cup {Json([summary |-> "s", failures |-> fs]) :
            fs \in {<< >>} \cup {<<o>> : o \in ResponseObjects("job")}}

FailedToParse == [summary |-> "Failed to parse AI response", failures |-> << >>]

\* parse_ai_response: json.loads of the text, else json.loads of the brace
\* match, else the fallback dictionary.
parse_ai_response(response_text) ==
    IF Loads(response_text).ok THEN Loads(response_text).data
    ELSE LET json_match == SearchBraces(response_text) IN
         IF json_match # << >> /\ Loads(json_match).ok
         THEN Loads(json_match).data
         ELSE FailedToParse

\* dict.get(key, default)
Get(d, key, default) == IF key \in DOMAIN d THEN d[key] ELSE default

\* build_failures_from_response: one FailureAnalysis per entry of "failures".
\* A value the code tests with "if value": the empty string and the empty
\* dictionary (both written "") and None are falsy.
Falsy(value) == value \in {"", "None"}

build_failures_from_response(response_data) ==
    LET fs == Get(response_data, "failures", << >>) IN
    [ i \in DOMAIN fs |->
        LET f == fs[i]
            classification == Get(f, "classification", "code_issue")
            fix_suggestion_value == Get(f, "fix_suggestion", "None")
            bug_report == Get(f, "bug_report", "None")
        IN FailureAnalysis(Get(f, "test_name", "Unknown"), Get(f, "error", ""),
               IF classification \in VALID_CLASSIFICATIONS
               THEN classification ELSE "code_issue",
               Get(f, "explanation", ""),
               IF Falsy(fix_suggestion_value) THEN "None" ELSE fix_suggestion_value,
               IF Falsy(bug_report) THEN "None" ELSE bug_report) ]

\* analyze_single_test_failure, lines 598-625: the call, the parsing and
\* the two fallbacks.
analyze_single_test_failure(failure, response) ==
    IF response.raised
    THEN FailureAnalysis(failure.test_name, failure.error_message,
                         "code_issue", "AI analysis failed: e", "None", "None")
    ELSE LET parsed == parse_ai_response(response.text)
             data == IF "failures" \in DOMAIN parsed THEN parsed
                     ELSE [failures |-> <<parsed>>]
             failures == build_failures_from_response(data)
         IN IF failures # << >> THEN failures[1]
            ELSE FailureAnalysis(failure.test_name, failure.error_message,
                                 "code_issue", "AI analysis failed to parse response",
                                 "None", "None")

\* A unit of a test fan-out either raises before the backend is called
\* (lines 528-596 are outside the try block) or returns an analysis.
TestOutcomes(failure) ==
    {[called |-> FALSE, raised |-> FALSE, result |-> Raised("OSError")]}
    \cup {[called |-> TRUE, raised |-> r.raised,
           result |-> Returned(analyze_single_test_failure(failure, r))] :
            r \in SingleResponses(failure.test_name)}

\* Lines 882-896 and 1117-1131: an exception in the result list becomes a
\* code_issue analysis of the failure at the same index.
CollectFailures(test_failures, results) ==
    [ i \in DOMAIN results |->
        IF results[i].exc
        THEN FailureAnalysis(test_failures[i].test_name,
                             test_failures[i].error_message,
                             "code_issue", "Analysis failed", "None", "None")
        ELSE results[i].val ]

CollectChildrenSkipping(failed_children, results) ==
    LET kept == SelectSeq([i \in DOMAIN results |-> i],
                          LAMBDA i : ~results[i].exc)
    IN  [k \in DOMAIN kept |-> results[kept[k]].val]

\* Lines 813-827 and 1050-1063: an exception in the result list becomes a
\* node for the child at the same index that carries only a note.
CollectChildren(failed_children, results) ==
    [ i \in DOMAIN results |->
        IF results[i].exc
        THEN ChildJobAnalysis(failed_children[i], NoSummary, << >>, << >>,
                              "Analysis failed")
        ELSE results[i].val ]

ChildCoroutines(kids, depth) ==
    [i \in DOMAIN kids |-> [kind |-> "child", job |-> kids[i], depth |-> depth]]

TestCoroutines(test_failures) ==
    [i \in DOMAIN test_failures |-> [kind |-> "test", failure |-> test_failures[i]]]

\* ---------------------------------------------------------------------
\* analyze_job and analyze_child_job (analyzer.py:723-1177)
\* ---------------------------------------------------------------------
Front(p) == SubSeq(p, 1, Len(p) - 1)
Last(p) == p[Len(p)]
RootPath == << >>
ChildrenId(p) == <<p, "children">>
TestsId(p) == <<p, "tests">>

NewNode(job, depth) ==
    [ job |-> job, depth |-> depth, pc |-> "start",
      children |-> << >>, tests |-> << >>, ai_calls |-> 0,
      fetch_error |-> "none", backend_failed |-> {} ]

\* The analyze_child_job calls created for the failed children of the
\* call at path p; each is a coroutine handed to run_parallel_with_limit.
NewNodes(p, kids, depth) ==
    [ q \in {Append(p, i) : i \in DOMAIN kids} |-> NewNode(kids[Last(q)], depth) ]

UnitRunning(p) ==
    /\ p \in DOMAIN node
    /\ batch[ChildrenId(Front(p))].st[Last(p)] = "running"

InitJob ==
    /\ mode = "job"
    /\ call = NoCall
    /\ jira = NoJira
    /\ env = NoEnv
    /\ af = NoRequest
    /\ ci \in CIData
    /\ batch = << >>
    /\ node = << >>
    /\ root = [ pc |-> "info", children |-> << >>, child_job_analyses |-> << >>,
                repo_path |-> "None", tests |-> << >>, ai_calls |-> 0,
                build_result |-> "unknown", fetches |-> {},
                backend_failed |-> {},
                result |-> [status |-> "none"] ]

RootRaise(why) == [root EXCEPT !.pc = "raised", !.repo_path = "None",
                               !.result = [status |-> "raised", error |-> why]]

RootReturn(summary, failures, children) ==
    [root EXCEPT !.pc = "done", !.repo_path = "None",
                 !.result = [ status |-> "completed", summary |-> summary,
                              failures |-> failures,
                              child_job_analyses |-> children ]]

BuildPassedNever(build_result) == FALSE
\* if build_result == "SUCCESS"   (analyzer.py:982)
BuildPassed(build_result) == build_result = "SUCCESS"

\* Lines 972-990: build info; a fetch error is raised to the caller, a
\* passed build returns at once.
RootInfo ==
    /\ mode = "job"
    /\ root.pc = "info"
    /\ \E outcome \in {"error", "SUCCESS", "FAILURE"} :
          root' = CASE outcome = "error" ->
                          [RootRaise("HTTPException") EXCEPT !.fetches = @ \cup {"info"}]
                    [] BuildPassed(outcome) ->
                          [RootReturn([kind |-> "passed"], << >>, << >>)
                              EXCEPT !.fetches = @ \cup {"info"},
                                     !.build_result = outcome]
                    [] OTHER -> [root EXCEPT !.pc = "console",
                                             !.fetches = @ \cup {"info"},
                                             !.build_result = outcome]
    /\ UNCHANGED <<call, jira, mode, batch, env, af, ci, node>>

\* Lines 992-1007: console output, then detection of failed children.
RootConsole ==
    /\ mode = "job"
    /\ root.pc = "console"
    /\ \E outcome \in {"error", "ok"} :
          root' = IF outcome = "error"
                  THEN [RootRaise("HTTPException") EXCEPT !.fetches = @ \cup {"console"}]
                  ELSE [root EXCEPT !.pc = "setup",
                                    !.fetches = @ \cup {"console"},
                                    !.children = DetectChildren(ci, RootBuild)]
    /\ UNCHANGED <<call, jira, mode, batch, env, af, ci, node>>

\* Lines 1015-1031: no repository URL, a clone that succeeds, or a clone
\* that fails and leaves repo_path None.
CloneOutcomes ==
    { [fetches |-> {}, repo_path |-> "None"],
      [fetches |-> {"clone"}, repo_path |-> "path"],
      [fetches |-> {"clone"}, repo_path |-> "None"] }

\* Lines 1009-1048: backend client, optional clone, and the fan-out over
\* the failed children at depth 0.
RootSetup ==
    /\ mode = "job"
    /\ root.pc = "setup"
    /\ \/ /\ root' = RootRaise("ValueError")
          /\ UNCHANGED <<batch, node>>
       \/ \E clone \in CloneOutcomes :
             IF root.children # << >>
             THEN /\ root' = [root EXCEPT !.pc = "children",
                                          !.repo_path = clone.repo_path,
                                          !.fetches = @ \cup clone.fetches]
                  /\ batch' = batch @@ (ChildrenId(RootPath) :>
                        run_parallel_with_limit(ChildCoroutines(root.children, 0),
                                                MAX_CONCURRENT_AI_CALLS))
                  /\ node' = node @@ NewNodes(RootPath, root.children, 0)
             ELSE /\ root' = [root EXCEPT !.pc = "report",
                                          !.repo_path = clone.repo_path,
                                          !.fetches = @ \cup clone.fetches]
                  /\ UNCHANGED <<batch, node>>
    /\ UNCHANGED <<call, jira, mode, env, af, ci>>

\* Lines 1048-1063: the child fan-out returned; exceptions become notes.
RootGather ==
    /\ mode = "job"
    /\ root.pc = "children"
    /\ AllDone(batch[ChildrenId(RootPath)])
    /\ LET ret == gather(batch[ChildrenId(RootPath)]) IN
          /\ batch' = [batch EXCEPT ![ChildrenId(RootPath)].ret = ret]
          /\ root' = [root EXCEPT !.pc = "report",
                        !.child_job_analyses =
                            CollectChildren(root.children, ret.results)]
    /\ UNCHANGED <<call, jira, mode, env, af, ci, node>>

IsPipelineNever(child_job_analyses, test_failures) == FALSE
\* if child_job_analyses and not test_failures   (analyzer.py:1076)
IsPipeline(child_job_analyses, test_failures) ==
    child_job_analyses # << >> /\ test_failures = << >>

\* Lines 1065-1115: test report; a pipeline without test failures returns
\* its children only, otherwise the test failures are fanned out or the
\* console analysis is next.
RootReport ==
    /\ mode = "job"
    /\ root.pc = "report"
    /\ LET test_failures == extract_failures_from_test_report(ci, RootBuild) IN
          IF IsPipeline(root.child_job_analyses, test_failures)
          THEN /\ root' = [RootReturn(PipelineSummary(root.child_job_analyses),
                                      << >>, root.child_job_analyses)
                              EXCEPT !.fetches = @ \cup {"report"}]
               /\ UNCHANGED batch
          ELSE IF test_failures # << >>
          THEN /\ root' = [root EXCEPT !.pc = "tests", !.tests = test_failures,
                                       !.fetches = @ \cup {"report"}]
               /\ batch' = batch @@ (TestsId(RootPath) :>
                     run_parallel_with_limit(TestCoroutines(test_failures),
                                             MAX_CONCURRENT_AI_CALLS))
          ELSE /\ root' = [root EXCEPT !.pc = "console_ai",
                                       !.fetches = @ \cup {"report"}]
               /\ UNCHANGED batch
    /\ UNCHANGED <<call, jira, mode, env, af, ci, node>>

\* Lines 1115-1131 and 1156-1177: the test fan-out returned.
RootCollect ==
    /\ mode = "job"
    /\ root.pc = "tests"
    /\ AllDone(batch[TestsId(RootPath)])
    /\ LET ret == gather(batch[TestsId(RootPath)])
           failures == CollectFailures(root.tests, ret.results)
       IN /\ batch' = [batch EXCEPT ![TestsId(RootPath)].ret = ret]
          /\ root' = RootReturn(TestsSummary(failures), failures,
                                root.child_job_analyses)
    /\ UNCHANGED <<call, jira, mode, env, af, ci, node>>

\* Lines 1132-1177: one analysis of the console; an exception of the
\* backend is not caught here.
RootConsoleAI ==
    /\ mode = "job"
    /\ root.pc = "console_ai"
    /\ \E response \in ConsoleResponses :
          root' = IF response.raised
                  THEN [RootRaise("backend") EXCEPT !.ai_calls = @ + 1]
                  ELSE LET failures ==
                            build_failures_from_response(parse_ai_response(response.text))
                       IN [RootReturn(TestsSummary(failures), failures,
                                      root.child_job_analyses)
                              EXCEPT !.ai_calls = @ + 1]
    /\ UNCHANGED <<call, jira, mode, batch, env, af, ci, node>>

\* The coroutine at path p ends: its unit leaves the semaphore with the
\* outcome and the call is over.
FinishNode(p, outcome, b) ==
    /\ batch' = [b EXCEPT ![ChildrenId(Front(p))] = bounded_exit(@, Last(p), outcome)]
    /\ node' = [node EXCEPT ![p].pc = "done"]

Note(job, note) == ChildJobAnalysis(job, NoSummary, << >>, << >>, note)

FetchErrorRaised(job, what) == Raised(what)
\* Lines 766-772 and 779-785: except Exception as e: return
\* ChildJobAnalysis(..., note=f"Failed to get ...: {e}")
FetchError(job, what) == Returned(Note(job, what))

\* The call at path p ends on a fetch error.
FinishFetchError(p, what) ==
    /\ batch' = [batch EXCEPT ![ChildrenId(Front(p))] =
                      bounded_exit(@, Last(p), FetchError(node[p].job, what))]
    /\ node' = [node EXCEPT ![p].pc = "done", ![p].fetch_error = what]

\* Lines 750-773: depth check, then build info.
ChildStart(p) ==
    /\ UnitRunning(p)
    /\ node[p].pc = "start"
    /\ IF DepthReached(node[p].depth, max_depth)
       THEN FinishNode(p, Returned(Note(node[p].job, "Max depth reached")), batch)
       ELSE \/ FinishFetchError(p, "Failed to get build info")
            \/ /\ node' = [node EXCEPT ![p].pc = "console"]
               /\ UNCHANGED batch
    /\ UNCHANGED <<call, jira, mode, env, af, ci, root>>

\* Lines 775-811: console output, detection of failed children and the
\* fan-out over them at depth + 1.
ChildConsole(p) ==
    /\ UnitRunning(p)
    /\ node[p].pc = "console"
    /\ \/ FinishFetchError(p, "Failed to get console output")
       \/ FinishNode(p, Raised("TypeError"), batch)
       \/ LET kids == DetectChildren(ci, node[p].job) IN
             IF kids # << >> /\ Len(p) >= MaxPath
             THEN \* the recursion goes on below the paths that are tracked
                  /\ node' = [node EXCEPT ![p].pc = "deeper"]
                  /\ UNCHANGED batch
             ELSE IF kids # << >>
             THEN /\ batch' = batch @@ (ChildrenId(p) :>
                        run_parallel_with_limit(
                            ChildCoroutines(kids, node[p].depth + 1),
                            MAX_CONCURRENT_AI_CALLS))
                  /\ node' = [node EXCEPT ![p].pc = "children", ![p].children = kids]
                                @@ NewNodes(p, kids, node[p].depth + 1)
             ELSE /\ node' = [node EXCEPT ![p].pc = "report"]
                  /\ UNCHANGED batch
    /\ UNCHANGED <<call, jira, mode, env, af, ci, root>>

\* Lines 811-852: the child fan-out returned; the call returns a node
\* without failures of its own.
ChildGather(p) ==
    /\ UnitRunning(p)
    /\ node[p].pc = "children"
    /\ AllDone(batch[ChildrenId(p)])
    /\ LET ret == gather(batch[ChildrenId(p)])
           child_analyses == CollectChildren(node[p].children, ret.results)
       IN FinishNode(p,
             Returned(ChildJobAnalysis(node[p].job, PipelineSummary(child_analyses),
                                       << >>, child_analyses, "None")),
             [batch EXCEPT ![ChildrenId(p)].ret = ret])
    /\ UNCHANGED <<call, jira, mode, env, af, ci, root>>

\* Lines 854-880: test report of a leaf; its failures are fanned out, one
\* analyze_single_test_failure per failure.
ChildReport(p) ==
    /\ UnitRunning(p)
    /\ node[p].pc = "report"
    /\ LET test_failures == extract_failures_from_test_report(ci, node[p].job) IN
          IF test_failures # << >>
          THEN /\ node' = [node EXCEPT ![p].pc = "tests", ![p].tests = test_failures]
               /\ batch' = batch @@ (TestsId(p) :>
                     run_parallel_with_limit(TestCoroutines(test_failures),
                                             MAX_CONCURRENT_AI_CALLS))
          ELSE /\ node' = [node EXCEPT ![p].pc = "console_ai"]
               /\ UNCHANGED batch
    /\ UNCHANGED <<call, jira, mode, env, af, ci, root>>

\* Lines 880-908: the test fan-out returned.
ChildCollect(p) ==
    /\ UnitRunning(p)
    /\ node[p].pc = "tests"
    /\ AllDone(batch[TestsId(p)])
    /\ LET ret == gather(batch[TestsId(p)])
           failures == CollectFailures(node[p].tests, ret.results)
       IN FinishNode(p,
             Returned(ChildJobAnalysis(node[p].job, TestsSummary(failures),
                                       failures, << >>, "None")),
             [batch EXCEPT ![TestsId(p)].ret = ret])
    /\ UNCHANGED <<call, jira, mode, env, af, ci, root>>

\* Lines 910-943: one analysis of the console; a backend exception
\* becomes a note.
ChildConsoleAI(p) ==
    /\ UnitRunning(p)
    /\ node[p].pc = "console_ai"
    /\ \E response \in ConsoleResponses :
          LET outcome ==
                IF response.raised
                THEN Note(node[p].job, "AI analysis failed")
                ELSE LET data == parse_ai_response(response.text) IN
                     ChildJobAnalysis(node[p].job,
                         [kind |-> "ai", text |-> Get(data, "summary", "Analysis complete")],
                         build_failures_from_response(data), << >>, "None")
          IN /\ batch' = [batch EXCEPT ![ChildrenId(Front(p))] =
                                bounded_exit(@, Last(p), Returned(outcome))]
             /\ node' = [node EXCEPT ![p].pc = "done", ![p].ai_calls = @ + 1]
    /\ UNCHANGED <<call, jira, mode, env, af, ci, root>>

\* A running analyze_single_test_failure unit of the call at path p ends.
FinishTest(p, i) ==
    /\ TestsId(p) \in DOMAIN batch
    /\ i \in DOMAIN batch[TestsId(p)].st
    /\ batch[TestsId(p)].st[i] = "running"
    /\ \E o \in TestOutcomes(batch[TestsId(p)].coros[i].failure) :
          /\ batch' = [batch EXCEPT ![TestsId(p)] = bounded_exit(@, i, o.result)]
          /\ IF p = RootPath
             THEN /\ root' = [root EXCEPT
                                !.ai_calls = IF o.called THEN @ + 1 ELSE @,
                                !.backend_failed = IF o.raised THEN @ \cup {i} ELSE @]
                  /\ UNCHANGED node
             ELSE /\ node' = [node EXCEPT
                                ![p].ai_calls = IF o.called THEN @ + 1 ELSE @,
                                ![p].backend_failed = IF o.raised THEN @ \cup {i} ELSE @]
                  /\ UNCHANGED root
    /\ UNCHANGED <<call, jira, mode, env, af, ci>>

JobAcquire ==
    /\ mode = "job"
    /\ \E id \in DOMAIN batch : \E i \in DOMAIN batch[id].st : Acquire(id, i)

Paths == DOMAIN node \cup {RootPath}

Next ==
    \/ RootInfo \/ RootConsole \/ RootSetup \/ RootGather
    \/ RootReport \/ RootCollect \/ RootConsoleAI
    \/ JobAcquire
    \/ \E p \in DOMAIN node :
          \/ ChildStart(p) \/ ChildConsole(p) \/ ChildGather(p)
          \/ ChildReport(p) \/ ChildCollect(p) \/ ChildConsoleAI(p)
    \/ \E p \in Paths : \E i \in 1..MaxTests : mode = "job" /\ FinishTest(p, i)

Spec == InitJob /\ [][Next]_vars

\* Every collaborator call returns and the event loop runs a coroutine
\* that is ready: some enabled step is eventually taken.
MaxLiveUnits == 1

\* The runs whose termination is checked: the walker started on any of
\* the pipelines of CIData with at most MaxLiveUnits failed tests to analyze.
InitLive == InitJob /\ RunUnits(ci) <= MaxLiveUnits

SpecLive == InitLive /\ [][Next]_vars /\ WF_vars(Next)

\* ---------------------------------------------------------------------
\* The same walk over a wide pipeline of pipelines: the root build lists
\* the last build up to WideChildren times as failed child, that build
\* lists itself, and no build has a test report, so the steps below are
\* the only ones such a run takes.
\* ---------------------------------------------------------------------
WideCI ==
    { [ meta    |-> [b \in Builds |-> IF b = RootBuild
                                      THEN [i \in 1..n |-> NBuilds]
                                      ELSE <<NBuilds>>],
        console |-> [b \in Builds |-> << >>],
        tests   |-> [b \in Builds |-> << >>] ] : n \in 1..WideChildren }

InitWide ==
    /\ mode = "job"
    /\ call = NoCall
    /\ jira = NoJira
    /\ env = NoEnv
    /\ af = NoRequest
    /\ ci \in WideCI
    /\ batch = << >>
    /\ node = << >>
    /\ root = [ pc |-> "info", children |-> << >>, child_job_analyses |-> << >>,
                repo_path |-> "None", tests |-> << >>, ai_calls |-> 0,
                build_result |-> "unknown", fetches |-> {},
                backend_failed |-> {},
                result |-> [status |-> "none"] ]

NextWide ==
    \/ RootInfo \/ RootConsole \/ RootSetup \/ RootGather \/ RootReport
    \/ JobAcquire
    \/ \E p \in DOMAIN node : ChildStart(p) \/ ChildConsole(p) \/ ChildGather(p)

SpecWide == InitWide /\ [][NextWide]_vars

\* ---------------------------------------------------------------------
\* The response normalizer applied to one text: parse_ai_response and the
\* verdict analyze_single_test_failure builds from it (analyzer.py:602-618)
\* ---------------------------------------------------------------------
TextTokens == {LB, RB, W, FenceJson, FenceEnd} \cup {Body(o) : o \in ResponseObjects("test_foo")}

\* Any text of up to MaxText tokens.
RawTexts == SeqsUpTo(TextTokens, MaxText)

\* Prose of up to MaxProse tokens, braces included.
Prose == SeqsUpTo({W, LB, RB}, MaxProse)

\* The JSON serialization of v in a json fence between two pieces of prose.
Fenced(leading, v, trailing) ==
    leading \o <<FenceJson>> \o Serialize(v) \o <<FenceEnd>> \o trailing

NormalizerInputs ==
    {[kind |-> "raw", text |-> t] : t \in RawTexts}
    \cup {[kind |-> "fenced", text |-> Fenced(l, v, t), v |-> v, leading |-> l,
           trailing |-> t] :
            l \in Prose, t \in Prose, v \in ResponseObjects("test_foo")}

TestFoo == CHOOSE f \in TestFailures : f.test_name = "test_foo"

InitParse ==
    /\ mode = "parse"
    /\ batch = << >>
    /\ env = NoEnv
    /\ af = NoRequest
    /\ ci = NoCI
    /\ root = NoRoot
    /\ node = << >>
    /\ jira = NoJira
    /\ \E input \in NormalizerInputs :
          call = [fn |-> "normalize", pc |-> "called", input |-> input]

\* The backend answered with the text: lines 602-618.
NormalizeText ==
    /\ mode = "parse"
    /\ call.pc = "called"
    /\ call' = [ fn |-> call.fn, pc |-> "returned", input |-> call.input,
                 parsed |-> parse_ai_response(call.input.text),
                 verdict |-> analyze_single_test_failure(
                                 TestFoo, [raised |-> FALSE, text |-> call.input.text]) ]
    /\ UNCHANGED <<jira, mode, batch, env, af, ci, root, node>>

NextParse == NormalizeText

SpecParse == InitParse /\ [][NextParse]_vars

\* ---------------------------------------------------------------------
\* Verdict construction: AnalysisDetail (models.py) and
\* build_failures_from_response (analyzer.py) on one failure dictionary
\* ---------------------------------------------------------------------
\* code_fix: CodeFix | bool | None, product_bug_report likewise.
CodeFixValues == {"False", "None", "True", "CodeFix"}
ProductBugReportValues == {"False", "None", "True", "ProductBugReport"}

\* Python truth of a payload field: a model instance and True are truthy.
Truthy(value) == value \notin {"False", "None"}

AnalysisDetailInputs ==
    [ classification : {"CODE ISSUE", "PRODUCT BUG", ""},
      details : {"text"},
      code_fix : CodeFixValues,
      product_bug_report : ProductBugReportValues ]

check_mutual_exclusivityOff(self) == FALSE

\* check_mutual_exclusivity: TRUE when the validator raises ValueError.
check_mutual_exclusivity(self) ==
    Truthy(self.code_fix) /\ Truthy(self.product_bug_report)

\* _exclude_falsy_optionals: the serialized detail without falsy payloads.
exclude_falsy_optionals(self) ==
    LET keys == {"classification", "details"}
                  \cup (IF Truthy(self.code_fix) THEN {"code_fix"} ELSE {})
                  \cup (IF Truthy(self.product_bug_report)
                        THEN {"product_bug_report"} ELSE {})
    IN [k \in keys |-> self[k]]

\* One failure dictionary of a backend answer: every key may be missing,
\* the classification may be outside VALID_CLASSIFICATIONS, and a payload
\* may be present but empty.
FailureKeys == {"test_name", "classification", "fix_suggestion", "bug_report"}

FullFailureDicts ==
    [ test_name : {"test_foo"},
      classification : {"code_issue", "product_bug", "flaky"},
      fix_suggestion : {"", "change the test"},
      bug_report : {"", "bug"} ]

FailureDicts ==
    { [k \in keys |-> full[k]] : full \in FullFailureDicts, keys \in SUBSET FailureKeys }

InitVerdict ==
    /\ mode = "verdict"
    /\ batch = << >>
    /\ env = NoEnv
    /\ af = NoRequest
    /\ ci = NoCI
    /\ root = NoRoot
    /\ node = << >>
    /\ jira = NoJira
    /\ \/ \E input \in AnalysisDetailInputs :
             call = [fn |-> "AnalysisDetail", pc |-> "called", input |-> input]
       \/ \E f \in FailureDicts :
             call = [fn |-> "build_failures_from_response", pc |-> "called",
                     input |-> f]

\* AnalysisDetail(...): field validation, then the "after" validator.
ConstructDetail ==
    /\ mode = "verdict"
    /\ call.fn = "AnalysisDetail"
    /\ call.pc = "called"
    /\ call' = IF check_mutual_exclusivity(call.input)
               THEN [fn |-> call.fn, pc |-> "raised", input |-> call.input]
               ELSE [fn |-> call.fn, pc |-> "constructed", input |-> call.input,
                     self |-> call.input]
    /\ UNCHANGED <<jira, mode, batch, env, af, ci, root, node>>

\* model_dump() of a constructed detail.
DumpDetail ==
    /\ mode = "verdict"
    /\ call.fn = "AnalysisDetail"
    /\ call.pc = "constructed"
    /\ call' = [fn |-> call.fn, pc |-> "dumped", input |-> call.input,
                self |-> call.self, dump |-> exclude_falsy_optionals(call.self)]
    /\ UNCHANGED <<jira, mode, batch, env, af, ci, root, node>>

\* build_failures_from_response({"failures": [f]}).
BuildFailures ==
    /\ mode = "verdict"
    /\ call.fn = "build_failures_from_response"
    /\ call.pc = "called"
    /\ call' = [fn |-> call.fn, pc |-> "returned", input |-> call.input,
                failures |-> build_failures_from_response(
                                 [failures |-> <<call.input>>])]
    /\ UNCHANGED <<jira, mode, batch, env, af, ci, root, node>>

NextVerdict == ConstructDetail \/ DumpDetail \/ BuildFailures

SpecVerdict == InitVerdict /\ [][NextVerdict]_vars

\* ---------------------------------------------------------------------
\* Jira enrichment: enrich_with_jira_matches (jira.py)
\* ---------------------------------------------------------------------
MaxReports == 3
NKeywords == 2
MaxKeywords == 2

\* Keywords are numbered in their string order: 1 is "auth", 2 is "login".
Keywords == 1..NKeywords

KeywordLists == UNION {[1..n -> Keywords] : n \in 0..MaxKeywords}

RECURSIVE Insert(_, _)
Insert(x, list) ==
    IF list = << >> THEN <<x>>
    ELSE IF x <= Head(list) THEN <<x>> \o list
    ELSE <<Head(list)>> \o Insert(x, Tail(list))

RECURSIVE sorted(_)
\* sorted(report.jira_search_keywords)
sorted(keywords) ==
    IF keywords = << >> THEN << >>
    ELSE Insert(Head(keywords), sorted(Tail(keywords)))

KeywordKeyUnsorted(keywords) == keywords

\* key = tuple(sorted(report.jira_search_keywords))
KeywordKey(keywords) == sorted(keywords)

\* A failure as the enrichment sees it: whether its analysis holds a
\* ProductBugReport, and that report's keywords and matches.
NoReport ==
    [product_bug_report |-> FALSE, jira_search_keywords |-> << >>,
     jira_matches |-> << >>]

JiraFailures ==
    {NoReport} \cup
    { [product_bug_report |-> TRUE, jira_search_keywords |-> k,
       jira_matches |-> << >>] : k \in KeywordLists }

JiraRuns == UNION {[1..n -> JiraFailures] : n \in 0..MaxReports}

\* _collect_product_bug_reports: indices of the failures holding a report.
collect_product_bug_reports(failures) ==
    SelectSeq([i \in DOMAIN failures |-> i],
              LAMBDA i : failures[i].product_bug_report)

KeyIndex(groups, key) ==
    IF \E g \in DOMAIN groups : groups[g].key = key
    THEN CHOOSE g \in DOMAIN groups : groups[g].key = key
    ELSE 0

RECURSIVE GroupReports(_, _, _)
\* keyword_to_reports, in insertion order: reports without keywords are
\* skipped, the others appended to the list of their key.
GroupReports(failures, reports, groups) ==
    IF reports = << >> THEN groups
    ELSE LET r == Head(reports)
             keywords == failures[r].jira_search_keywords
             key == KeywordKey(keywords)
             g == KeyIndex(groups, key)
         IN IF keywords = << >>
            THEN GroupReports(failures, Tail(reports), groups)
            ELSE GroupReports(failures, Tail(reports),
                   IF g = 0
                   THEN Append(groups, [key |-> key, reports |-> <<r>>])
                   ELSE [groups EXCEPT ![g].reports = Append(@, r)])

\* Candidates a search may return.
CandidateLists == { << >>, <<"PROJ-1", "PROJ-2">> }

SearchOutcomes ==
    {[raised |-> TRUE, candidates |-> << >>]}
      \cup {[raised |-> FALSE, candidates |-> c] : c \in CandidateLists}

\* _search_safe: an exception of client.search becomes an empty list.
search_safe(outcome) == [raised |-> FALSE, candidates |-> outcome.candidates]

\* Scores in tenths.
Scores == {5, 9}

JiraMatch(key, score) == [key |-> key, score |-> score]

\* What the relevance call gives back for the candidates: the backend
\* reports failure, its output is not JSON, its output is JSON that
\* cannot be iterated, or it is an array of evaluations.
AiOutputs(candidates) ==
    { [kind |-> k, evaluations |-> << >>] :
          k \in {"not success", "not json", "not iterable"} }
      \cup
    { [kind |-> "array",
       evaluations |-> [i \in DOMAIN candidates |->
                          [key |-> candidates[i], relevant |-> rel[i],
                           score |-> sc[i]]]] :
          rel \in [DOMAIN candidates -> BOOLEAN],
          sc \in [DOMAIN candidates -> Scores] }

RECURSIVE InsertByScore(_, _)
InsertByScore(m, list) ==
    IF list = << >> THEN <<m>>
    ELSE IF m.score >= Head(list).score THEN <<m>> \o list
    ELSE <<Head(list)>> \o InsertByScore(m, Tail(list))

RECURSIVE SortByScore(_)
\* relevant_matches.sort(key=score, reverse=True); the sort is stable.
SortByScore(matches) ==
    IF matches = << >> THEN << >>
    ELSE InsertByScore(Head(matches), SortByScore(Tail(matches)))

\* _filter_matches_with_ai: raised, or the relevant matches by score.
filter_matches_with_ai(candidates, output) ==
    CASE output.kind \in {"not success", "not json"} ->
             [raised |-> FALSE, matches |-> << >>]
      [] output.kind = "not iterable" ->
             [raised |-> TRUE, matches |-> << >>]
      [] OTHER ->
             LET relevant == SelectSeq(output.evaluations,
                                LAMBDA e : e.relevant /\ e.key \in Range(candidates))
             IN [raised |-> FALSE,
                 matches |-> SortByScore([i \in DOMAIN relevant |->
                                JiraMatch(relevant[i].key, relevant[i].score)])]

\* Without a backend every candidate is a match of score 0.
all_candidates(candidates) ==
    [raised |-> FALSE,
     matches |-> [i \in DOMAIN candidates |-> JiraMatch(candidates[i], 0)]]

enrich_exceptReraise(pc) == "raised"

\* except Exception around the searches and the filtering: logged only.
enrich_except(pc) == "returned"

AttachedFirst(group) == {group[1]}

\* for report in keyword_to_reports[kw_tuple]: report.jira_matches = matches
Attached(group) == Range(group)

Task(state, candidates) == [state |-> state, candidates |-> candidates]

\* Settings as far as Jira is concerned: the explicit toggle, whether a
\* URL is set, and which credentials are present.
Settings(enable_jira, jira_url, cloud_auth, jira_pat) ==
    [enable_jira |-> enable_jira, jira_url |-> jira_url,
     cloud_auth |-> cloud_auth, jira_pat |-> jira_pat]

\* Nothing configured; switched off although configured; a URL without
\* credentials; a server with a token; a cloud site with email and token.
JiraSettings ==
    { Settings("None", FALSE, FALSE, FALSE),
      Settings("False", TRUE, FALSE, TRUE),
      Settings("True", TRUE, FALSE, FALSE),
      Settings("None", TRUE, FALSE, TRUE),
      Settings("True", TRUE, TRUE, FALSE) }

\* Settings.jira_enabled
jira_enabled(self) ==
    IF self.enable_jira = "False" THEN FALSE
    ELSE IF ~self.jira_url THEN FALSE
    ELSE IF ~(self.cloud_auth \/ self.jira_pat) THEN FALSE
    ELSE self.cloud_auth \/ self.jira_pat

SkipNever(enabled) == FALSE

\* if not settings.jira_enabled: return
Skip(enabled) == ~enabled

\* The modes in which enrich_with_jira_matches runs: called on its own,
\* and called by POST /analyze-failures.
MatcherModes == {"jira", "failures", "job"}

\* enrich_with_jira_matches(failures, settings, ai_provider, ai_model) has
\* been called; writes counts the assignments to each jira_matches.
JiraCall(failures, settings, ai) ==
    [ pc |-> "called", settings |-> settings,
      jira_enabled |-> jira_enabled(settings), ai |-> ai,
      failures |-> failures, client |-> "none",
      keyword_to_reports |-> << >>, tasks |-> << >>,
      searches |-> << >>, search_failed |-> {},
      filter_failed |-> {}, i |-> 1,
      writes |-> [r \in DOMAIN failures |-> 0] ]

InitJira ==
    /\ mode = "jira"
    /\ batch = << >>
    /\ env = NoEnv
    /\ af = NoRequest
    /\ ci = NoCI
    /\ root = NoRoot
    /\ node = << >>
    /\ call = NoCall
    /\ \E failures \in JiraRuns, settings \in JiraSettings, ai \in BOOLEAN :
          jira = JiraCall(failures, settings, ai)

\* Lines 356-383: the early returns, the grouping and the client.
JiraCollect ==
    /\ mode \in MatcherModes
    /\ jira.pc = "called"
    /\ LET reports == collect_product_bug_reports(jira.failures)
           groups == GroupReports(jira.failures, reports, << >>)
       IN jira' =
            IF Skip(jira.jira_enabled) \/ reports = << >> \/ groups = << >>
            THEN [jira EXCEPT !.pc = "returned"]
            ELSE [jira EXCEPT !.pc = "searching", !.client = "open",
                              !.keyword_to_reports = groups,
                              !.tasks = [g \in DOMAIN groups |->
                                           Task("pending", << >>)]]
    /\ UNCHANGED <<call, mode, batch, env, af, ci, root, node>>

\* A task of the gather starts: client.search(list(kw_tuple)) is issued.
\* The tasks start in the order of the list.
JiraSearchStart ==
    /\ mode \in MatcherModes
    /\ jira.pc = "searching"
    /\ \E t \in DOMAIN jira.tasks :
          /\ jira.tasks[t].state = "pending"
          /\ \A u \in 1..(t - 1) : jira.tasks[u].state # "pending"
          /\ jira' = [jira EXCEPT
                        !.tasks[t].state = "running",
                        !.searches = Append(@, jira.keyword_to_reports[t].key)]
    /\ UNCHANGED <<call, mode, batch, env, af, ci, root, node>>

\* A search ends, in any order: with candidates or with an exception.
JiraSearchFinish ==
    /\ mode \in MatcherModes
    /\ jira.pc = "searching"
    /\ \E t \in DOMAIN jira.tasks, outcome \in SearchOutcomes :
          /\ jira.tasks[t].state = "running"
          /\ LET result == search_safe(outcome) IN
             jira' =
               IF result.raised
               THEN [jira EXCEPT !.pc = enrich_except(jira.pc),
                                 !.client = "closed",
                                 !.search_failed = @ \cup {t}]
               ELSE [jira EXCEPT
                       !.tasks[t] = Task("done", result.candidates),
                       !.search_failed = IF outcome.raised THEN @ \cup {t} ELSE @]
    /\ UNCHANGED <<call, mode, batch, env, af, ci, root, node>>

\* Lines 396-431: one turn of the loop over zip(keyword_to_reports,
\* search_results), entered when the gather has returned.
JiraFilter ==
    /\ mode \in MatcherModes
    /\ jira.pc = "searching"
    /\ \A t \in DOMAIN jira.tasks : jira.tasks[t].state = "done"
    /\ jira.i <= Len(jira.keyword_to_reports)
    /\ LET candidates == jira.tasks[jira.i].candidates
           group == jira.keyword_to_reports[jira.i].reports
       IN IF candidates = << >>
          THEN jira' = [jira EXCEPT !.i = @ + 1]
          ELSE \E output \in AiOutputs(candidates) :
                 LET result == IF jira.ai
                               THEN filter_matches_with_ai(candidates, output)
                               ELSE all_candidates(candidates)
                 IN jira' =
                      IF result.raised
                      THEN [jira EXCEPT !.pc = enrich_except(jira.pc),
                                        !.client = "closed",
                                        !.filter_failed = @ \cup {jira.i}]
                      ELSE [jira EXCEPT
                              !.i = @ + 1,
                              !.filter_failed =
                                  IF jira.ai /\ output.kind # "array"
                                  THEN @ \cup {jira.i} ELSE @,
                              !.writes =
                                  [r \in DOMAIN jira.failures |->
                                     IF r \in Attached(group)
                                     THEN jira.writes[r] + 1
                                     ELSE jira.writes[r]],
                              !.failures =
                                  [r \in DOMAIN jira.failures |->
                                     IF r \in Attached(group)
                                     THEN [jira.failures[r] EXCEPT
                                             !.jira_matches = result.matches]
                                     ELSE jira.failures[r]]]
    /\ UNCHANGED <<call, mode, batch, env, af, ci, root, node>>

\* Lines 433-440: the loop is over, the client is closed.
JiraReturn ==
    /\ mode \in MatcherModes
    /\ jira.pc = "searching"
    /\ \A t \in DOMAIN jira.tasks : jira.tasks[t].state = "done"
    /\ jira.i > Len(jira.keyword_to_reports)
    /\ jira' = [jira EXCEPT !.pc = "returned", !.client = "closed"]
    /\ UNCHANGED <<call, mode, batch, env, af, ci, root, node>>

NextJira ==
    \/ JiraCollect
    \/ JiraSearchStart
    \/ JiraSearchFinish
    \/ JiraFilter
    \/ JiraReturn

SpecJira == InitJira /\ [][NextJira]_vars

\* ---------------------------------------------------------------------
\* POST /analyze-failures, second half: the matcher pass and the answer
\* ---------------------------------------------------------------------
\* A failure analysis as enrich_with_jira_matches looks at it.
AwaitedEarly(b) == TRUE

\* results = await run_parallel_with_limit(...): the caller goes on when
\* the batch has returned.
Awaited(b) == b.ret.state = "returned"

ToReport(analysis) ==
    [ product_bug_report |-> analysis.analysis.product_bug_report,
      jira_search_keywords |-> analysis.analysis.jira_search_keywords,
      jira_matches |-> analysis.analysis.jira_matches ]

\* Lines 365-379: the fan-out returned; results are flattened, exceptions
\* skipped, and enrich_with_jira_matches(all_analyses, settings) is called
\* without a provider or model.
AfEnrich ==
    /\ mode = "failures"
    /\ af.pc = "awaiting"
    /\ Awaited(batch[FailuresId])
    /\ LET all_analyses == Flatten(batch[FailuresId].ret.results) IN
          /\ af' = [af EXCEPT !.pc = "enriching", !.all_analyses = all_analyses]
          /\ \E settings \in JiraSettings :
                jira' = JiraCall([i \in DOMAIN all_analyses |->
                                    ToReport(all_analyses[i])], settings, FALSE)
    /\ UNCHANGED <<call, mode, batch, env, ci, root, node>>

\* Lines 381-392 and 394-407: the pass is over; the result is stored and
\* answered (an exception of the pass would end in the except branch),
\* and the repository manager is cleaned up.
AfComplete ==
    /\ mode = "failures"
    /\ af.pc = "enriching"
    /\ jira.pc \in {"returned", "raised"}
    /\ af' =
         IF jira.pc = "raised"
         THEN [af EXCEPT !.pc = "done", !.http = 200,
                         !.stored = update_status(@, "failed"), !.repo = "none",
                         !.response = FailedResult(af.body, "enrich")]
         ELSE [af EXCEPT
                 !.pc = "done", !.http = 200,
                 !.stored = update_status(@, "completed"), !.repo = "none",
                 !.response =
                    [ status |-> "completed",
                      summary |-> Summary(af.body.failures, af.groups, af.all_analyses),
                      failures |->
                         [i \in DOMAIN af.all_analyses |->
                            [af.all_analyses[i] EXCEPT
                               !.analysis.jira_matches = jira.failures[i].jira_matches]],
                      ai_provider |-> ResolveProvider(af.body),
                      ai_model |-> ResolveModel(af.body) ]]
    /\ UNCHANGED <<call, jira, mode, batch, env, ci, root, node>>

NextFailures ==
    \/ AfReject \/ AfGroup \/ AfDispatch \/ AfCloneFails
    \/ AfAcquire \/ AfFinish \/ AfReturn \/ AfEnrich
    \/ JiraCollect \/ JiraSearchStart \/ JiraSearchFinish
    \/ JiraFilter \/ JiraReturn
    \/ AfComplete

SpecFailures == InitFailures /\ [][NextFailures]_vars

\* ---------------------------------------------------------------------
\* Claims about the executor
\* ---------------------------------------------------------------------
RunningCount(id) == Cardinality(RunningIn(batch[id]))

\* C1: within one call of run_parallel_with_limit(units, limit) at most
\* `limit` units are executing at every moment; a unit that finds no free
\* slot stays waiting until a running unit has finished.
C1_AtMostLimitExecuting ==
    \A id \in DOMAIN batch : RunningCount(id) <= batch[id].limit

\* C1 witness: the limit is reached while a further unit is still waiting.
C1_Witness ==
    /\ mode = "exec"
    /\ RunningCount(CallId) = batch[CallId].limit
    /\ WaitingIn(batch[CallId]) # {}

\* C3: failure isolation. The call never raises; when unit k raises, the
\* returned list holds k's exception at index k and every other unit has
\* run to completion with its own result at its own index.
C3_FailureIsolation ==
    mode = "exec" =>
        LET b == batch[CallId] IN
        /\ b.ret.state # "raised"
        /\ b.ret.state = "returned" =>
              \A k \in DOMAIN b.coros :
                  b.coros[k].result.exc =>
                      /\ b.ret.results[k] = b.coros[k].result
                      /\ \A i \in DOMAIN b.coros \ {k} :
                            /\ b.st[i] = "done"
                            /\ b.ret.results[i] = b.coros[i].result

\* C3 witness: a returned call in which one unit raised and another one
\* returned a value.
C3_Witness ==
    /\ mode = "exec"
    /\ batch[CallId].ret.state = "returned"
    /\ \E k, i \in DOMAIN batch[CallId].coros :
          /\ batch[CallId].ret.results[k].exc
          /\ ~batch[CallId].ret.results[i].exc

\* C4: whatever the completion order, the returned list is as long as the
\* input list and entry i is the result of input unit i.
C4_InputOrder ==
    mode = "exec" =>
        LET b == batch[CallId] IN
        b.ret.state = "returned" =>
            /\ Len(b.ret.results) = Len(b.coros)
            /\ \A i \in 1..Len(b.coros) : b.ret.results[i] = b.coros[i].result

\* C4 witness: the units completed in an order other than the input order
\* and their results differ, and the call has returned.
C4_Witness ==
    /\ mode = "exec"
    /\ batch[CallId].ret.state = "returned"
    /\ \E i, j \in DOMAIN batch[CallId].order :
          /\ i < j
          /\ batch[CallId].order[i] > batch[CallId].order[j]
          /\ batch[CallId].coros[batch[CallId].order[i]]
                # batch[CallId].coros[batch[CallId].order[j]]

\* ---------------------------------------------------------------------
\* Claims about grouping by signature
\* ---------------------------------------------------------------------
Occurrences(x, seq) == Cardinality({i \in DOMAIN seq : seq[i] = x})

RECURSIVE TotalSize(_)
TotalSize(groups) ==
    IF groups = << >> THEN 0
    ELSE Len(Head(groups).failures) + TotalSize(Tail(groups))

RECURSIVE TotalOccurrences(_, _)
TotalOccurrences(x, groups) ==
    IF groups = << >> THEN 0
    ELSE Occurrences(x, Head(groups).failures) + TotalOccurrences(x, Tail(groups))

Grouped == mode = "failures" /\ af.pc # "received" /\ af.http # 400

\* C9: grouping conservation. Grouping a failure list by signature gives
\* non-empty groups whose sizes add up to the length of the list, and each
\* failure of the list is in exactly one group: the group of its signature,
\* as often as it occurs in the list.
C9_GroupingConservation ==
    Grouped =>
        LET fs == af.body.failures
            gs == af.groups
        IN /\ \A k \in DOMAIN gs : gs[k].failures # << >>
           /\ TotalSize(gs) = Len(fs)
           /\ \A x \in Range(fs) : TotalOccurrences(x, gs) = Occurrences(x, fs)
           /\ \A k \in DOMAIN gs : \A x \in Range(gs[k].failures) :
                 /\ x \in Range(fs)
                 /\ \A j \in DOMAIN gs :
                       x \in Range(gs[j].failures) => j = k

\* C9 witness: a grouped list in which one group holds two failures and
\* another group exists.
C9_Witness ==
    /\ Grouped
    /\ Len(af.groups) >= 2
    /\ \E k \in DOMAIN af.groups : Len(af.groups[k].failures) >= 2

\* ---------------------------------------------------------------------
\* Claims about the walk over builds
\* ---------------------------------------------------------------------
RECURSIVE SumRunning(_)
SumRunning(ids) ==
    IF ids = {} THEN 0
    ELSE LET id == CHOOSE x \in ids : TRUE
         IN RunningCount(id) + SumRunning(ids \ {id})

Outcome(p) == batch[ChildrenId(Front(p))].out[Last(p)]
NodeDone(p) == node[p].pc = "done"
DepthLimited(p) ==
    /\ NodeDone(p)
    /\ ~Outcome(p).exc
    /\ Outcome(p).val.note = "Max depth reached"
    /\ Outcome(p).val.failures = << >>
    /\ Outcome(p).val.failed_children = << >>

MaxOf(S) == CHOOSE x \in S : \A y \in S : y <= x

RECURSIVE TreeHeight(_)
\* Levels of nodes in a list of child results.
TreeHeight(children) ==
    IF children = << >> THEN 0
    ELSE 1 + MaxOf({TreeHeight(children[i].failed_children) : i \in DOMAIN children})

Completed == mode = "job" /\ root.pc = "done" /\ root.result.status = "completed"

\* C5: depth bound. The walk analyses child builds on max_depth levels
\* (depths 0 .. max_depth - 1) and a call at depth max_depth returns a
\* Depth-Limited node without looking at the build; no node of the walk or
\* of the returned tree lies deeper, however deep the CI data goes.
C5_DepthBound ==
    mode = "job" =>
        /\ \A p \in DOMAIN node :
              /\ node[p].depth = Len(p) - 1
              /\ node[p].depth <= max_depth
              /\ (NodeDone(p) /\ node[p].depth = max_depth) => DepthLimited(p)
              /\ node[p].depth < max_depth => ~DepthLimited(p)
        /\ Completed => TreeHeight(root.result.child_job_analyses) <= max_depth + 1

\* C5 witness: a finished run over a chain of failed children that goes on
\* below the limit: the tree has max_depth levels of analysed builds and a
\* Depth-Limited node under them.
C5_Witness ==
    /\ Completed
    /\ TreeHeight(root.result.child_job_analyses) = max_depth + 1
    /\ \E p \in DOMAIN node :
          /\ Len(p) = max_depth + 1
          /\ DepthLimited(p)
          /\ DetectChildren(ci, node[p].job) # << >>

Terminated == mode = "job" /\ root.pc \in {"done", "raised"}

\* The build of the call at path p is the build of one of its callers.
Cyclic(p) ==
    \/ node[p].job = RootBuild
    \/ \E k \in 1..(Len(p) - 1) : node[SubSeq(p, 1, k)].job = node[p].job

\* C6: a run of analyze_job ends, also over cyclic CI data, when every
\* collaborator call returns.
C6_Terminates == <>Terminated

\* C6 witness: a run that returned its tree after it walked into a build
\* that lists one of its ancestors as a failed child.
C6_Witness ==
    /\ Completed
    /\ \E p \in DOMAIN node : Cyclic(p) /\ NodeDone(p) /\ node[p].children # << >>

NumSignatures(failures) ==
    Cardinality({get_failure_signature(failures[i]) : i \in DOMAIN failures})

FailuresOf(coros) == [i \in DOMAIN coros |-> coros[i].failure]

\* C8: for the test failures of a leaf build, and for those of a POST
\* /analyze-failures request, the analysis calls dispatched are as many as
\* the distinct signatures in the list.
C8_OneCallPerSignature ==
    /\ mode = "job" =>
          \A id \in DOMAIN batch :
              id[2] = "tests" =>
                  Len(batch[id].coros) = NumSignatures(FailuresOf(batch[id].coros))
    /\ (mode = "failures" /\ FailuresId \in DOMAIN batch) =>
          Len(batch[FailuresId].coros) = NumSignatures(af.body.failures)

SameVerdict(a, b) ==
    /\ a.classification = b.classification
    /\ a.fix_suggestion = b.fix_suggestion
    /\ a.bug_report = b.bug_report

SharedVerdicts(tests, failures) ==
    \A i, j \in DOMAIN failures :
        get_failure_signature(tests[i]) = get_failure_signature(tests[j])
            => SameVerdict(failures[i], failures[j])

\* C10: in the result of a leaf analysis two failures with the same
\* signature carry the same classification, fix and bug report.
C10_SameSignatureSameVerdict ==
    mode = "job" =>
        /\ (Completed /\ root.tests # << >>) =>
              SharedVerdicts(root.tests, root.result.failures)
        /\ \A p \in DOMAIN node :
              (NodeDone(p) /\ node[p].tests # << >> /\ ~Outcome(p).exc) =>
                  SharedVerdicts(node[p].tests, Outcome(p).val.failures)

\* ---------------------------------------------------------------------
\* Claims about the root build and about errors
\* ---------------------------------------------------------------------
\* C11: when the root build's result is SUCCESS, analyze_job returns a
\* completed result without verdicts and without child nodes, and the run
\* has fetched the build info only: no console, no test report, no clone,
\* no fan-out and no backend call.
C11_PassedShortCircuit ==
    (mode = "job" /\ root.build_result = "SUCCESS") =>
        /\ Completed
        /\ root.result.failures = << >>
        /\ root.result.child_job_analyses = << >>
        /\ root.fetches = {"info"}
        /\ root.ai_calls = 0
        /\ root.repo_path = "None"
        /\ batch = << >>
        /\ node = << >>

\* C11 witness: a run over a passed root build has returned, although the
\* CI data holds failed children or failed tests for that build.
C11_Witness ==
    /\ Completed
    /\ root.build_result = "SUCCESS"
    /\ root.result.summary.kind = "passed"
    /\ (DetectChildren(ci, RootBuild) # << >>
          \/ extract_failures_from_test_report(ci, RootBuild) # << >>)

\* C12: a fetch error (build info or console) on a child build ends that
\* call with a node that carries the error as its note and nothing else:
\* no verdicts, no children, no fan-out and no backend call for the
\* branch. The error is not raised, so once the caller's fan-out has
\* returned, every sibling has finished and has its own entry, and the
\* node stands at the child's index.
C12_FetchErrorNode ==
    mode = "job" =>
        \A p \in DOMAIN node :
            node[p].fetch_error # "none" =>
                /\ NodeDone(p)
                /\ ~Outcome(p).exc
                /\ Outcome(p).val.note = node[p].fetch_error
                /\ Outcome(p).val.job = node[p].job
                /\ Outcome(p).val.failures = << >>
                /\ Outcome(p).val.failed_children = << >>
                /\ node[p].ai_calls = 0
                /\ ChildrenId(p) \notin DOMAIN batch
                /\ TestsId(p) \notin DOMAIN batch
                /\ LET b == batch[ChildrenId(Front(p))] IN
                   b.ret.state # "pending" =>
                       /\ b.ret.state = "returned"
                       /\ Len(b.ret.results) = Len(b.coros)
                       /\ b.ret.results[Last(p)] = Outcome(p)
                       /\ \A i \in DOMAIN b.coros : NodeDone(Append(Front(p), i))
                /\ (Completed /\ Len(p) = 1) =>
                       root.result.child_job_analyses[Last(p)] = Outcome(p).val

\* C12 witness: a finished run in which one child ended on a fetch error
\* and a sibling of it was analysed and carries verdicts.
C12_Witness ==
    /\ Completed
    /\ \E p, q \in DOMAIN node :
          /\ p # q /\ Front(p) = Front(q)
          /\ node[p].fetch_error # "none"
          /\ NodeDone(q) /\ ~Outcome(q).exc
          /\ Outcome(q).val.failures # << >>

\* C13: analyze_job raises to its caller only when the fetch of the root
\* build's info or console fails; a run that raised has made no backend
\* call, and every other failure ends in a returned result.
C13_RaisesOnlyOnRootFetch ==
    (mode = "job" /\ root.pc = "raised") =>
        /\ root.result.error = "HTTPException"
        /\ root.fetches \subseteq {"info", "console"}
        /\ root.ai_calls = 0

\* The call at path p (the root call for the empty path) and its verdict
\* list once it has returned one.
Owner(p) == IF p = RootPath THEN root ELSE node[p]
HasVerdicts(p) ==
    IF p = RootPath THEN Completed
    ELSE NodeDone(p) /\ ~Outcome(p).exc
VerdictsOf(p) ==
    IF p = RootPath THEN root.result.failures ELSE Outcome(p).val.failures

\* C14: when the backend fails for one failure of a test fan-out, the unit
\* does not raise and its verdict is classified UNKNOWN with the error
\* text as narrative; the caller's list holds that verdict at the failure's
\* index and the verdicts of the other failures are the ones their own
\* units returned.
C14_BackendErrorIsUnknown ==
    mode = "job" =>
        \A p \in Paths :
            \A i \in Owner(p).backend_failed :
                LET b == batch[TestsId(p)] IN
                /\ b.st[i] = "done"
                /\ ~b.out[i].exc
                /\ b.out[i].val.classification = "UNKNOWN"
                /\ b.out[i].val.explanation = "AI analysis failed: e"
                /\ HasVerdicts(p) =>
                       /\ VerdictsOf(p)[i] = b.out[i].val
                       /\ \A j \in DOMAIN b.out :
                              ~b.out[j].exc => VerdictsOf(p)[j] = b.out[j].val

\* ---------------------------------------------------------------------
\* Claims about the response normalizer
\* ---------------------------------------------------------------------
\* A text that cannot be decoded: it is no JSON object and neither is what
\* stands between its first opening and its last closing brace.
Undecodable(text) ==
    /\ ~Loads(text).ok
    /\ SearchBraces(text) = << >> \/ ~Loads(SearchBraces(text)).ok

Normalized == mode = "parse" /\ call.pc = "returned"

\* C15: for every text that cannot be decoded the normalizer returns a
\* verdict classified UNKNOWN whose narrative is the whole text verbatim.
C15_FallbackKeepsText ==
    (Normalized /\ Undecodable(call.input.text)) =>
        /\ call.verdict.classification = "UNKNOWN"
        /\ call.verdict.explanation = call.input.text

\* The verdict with the content of the serialized object v.
VerdictOf(v) ==
    FailureAnalysis(v.test_name, v.error, v.classification, v.explanation,
                    v.fix_suggestion, v.bug_report)

\* C16: round trip. The JSON serialization of a verdict v in a json fence,
\* with any prose before and after it, braces in the prose included,
\* normalizes to a verdict equal to v.
C16_RoundTrip ==
    (Normalized /\ call.input.kind = "fenced") =>
        /\ call.parsed = call.input.v
        /\ call.verdict = VerdictOf(call.input.v)


\* ---------------------------------------------------------------------
\* Claims on verdict construction
\* ---------------------------------------------------------------------
\* C17: constructing an AnalysisDetail with both a code_fix and a
\* product_bug_report set is rejected with a validation error, and every
\* detail that exists (constructed or serialized) carries at most one of
\* the two payloads.
C17_MutuallyExclusive ==
    (mode = "verdict" /\ call.fn = "AnalysisDetail" /\ call.pc # "called") =>
        /\ (Truthy(call.input.code_fix) /\ Truthy(call.input.product_bug_report))
              => call.pc = "raised"
        /\ call.pc \in {"constructed", "dumped"} =>
              ~(Truthy(call.self.code_fix) /\ Truthy(call.self.product_bug_report))
        /\ call.pc = "dumped" =>
              ~({"code_fix", "product_bug_report"} \subseteq DOMAIN call.dump)

C17_Witness ==
    /\ mode = "verdict"
    /\ call.fn = "AnalysisDetail"
    /\ call.pc = "raised"
    /\ call.input.code_fix = "CodeFix"
    /\ call.input.product_bug_report = "ProductBugReport"

\* C18: in every verdict produced or accepted, a code fix is present only
\* when the classification is the code-issue one and a bug report only
\* when it is the product-bug one; a verdict whose payload does not match
\* its classification cannot be constructed.
C18_PayloadMatchesClassification ==
    /\ (mode = "verdict" /\ call.fn = "AnalysisDetail"
          /\ call.pc \in {"constructed", "dumped"}) =>
          /\ Truthy(call.self.code_fix) => call.self.classification = "CODE ISSUE"
          /\ Truthy(call.self.product_bug_report)
                => call.self.classification = "PRODUCT BUG"
    /\ (mode = "verdict" /\ call.fn = "build_failures_from_response"
          /\ call.pc = "returned") =>
          \A i \in DOMAIN call.failures :
              /\ call.failures[i].fix_suggestion # "None"
                    => call.failures[i].classification = "code_issue"
              /\ call.failures[i].bug_report # "None"
                    => call.failures[i].classification = "product_bug"


\* ---------------------------------------------------------------------
\* Claims on the Jira enrichment
\* ---------------------------------------------------------------------
\* Two keyword lists that are permutations of each other.
SameSet(a, b) == sorted(a) = sorted(b)

SearchesFor(keywords) ==
    Cardinality({n \in DOMAIN jira.searches : SameSet(jira.searches[n], keywords)})

\* The keyword lists of the bug reports that carry keywords.
Searchable ==
    { jira.failures[r].jira_search_keywords :
        r \in {q \in DOMAIN jira.failures :
                 /\ jira.failures[q].product_bug_report
                 /\ jira.failures[q].jira_search_keywords # << >>} }

\* C19: across all bug reports of a run exactly one tracker search is
\* issued per distinct keyword set, lists that are permutations of each
\* other counting as one set; every search belongs to a report that has
\* keywords, so reports without keywords trigger none.
C19_OneSearchPerKeywordSet ==
    mode = "jira" =>
        /\ \A n \in DOMAIN jira.searches :
              \E k \in Searchable : SameSet(jira.searches[n], k)
        /\ \A k \in Searchable : SearchesFor(k) <= 1
        /\ (jira.pc = "returned" /\ jira.jira_enabled) =>
              \A k \in Searchable : SearchesFor(k) = 1

C19_Witness ==
    /\ mode = "jira"
    /\ jira.pc = "returned"
    /\ Len(jira.failures) = 3
    /\ jira.failures[1].jira_search_keywords = <<2, 1>>
    /\ jira.failures[2].product_bug_report
    /\ jira.failures[2].jira_search_keywords = << >>
    /\ jira.failures[3].jira_search_keywords = <<1, 2>>
    /\ Len(jira.searches) = 1

\* The reports of the keyword sets whose search or scoring failed.
Affected ==
    UNION { Range(jira.keyword_to_reports[g].reports) :
              g \in jira.search_failed \cup jira.filter_failed }

C21_DisabledIsNoOp ==
    (mode = "jira" /\ ~jira_enabled(jira.settings)) =>
        /\ jira.client = "none"
        /\ jira.searches = << >>
        /\ jira.tasks = << >>
        /\ \A r \in DOMAIN jira.failures : jira.failures[r].jira_matches = << >>
        /\ jira.pc \in {"called", "returned"}

C21_Witness ==
    /\ mode = "jira"
    /\ jira.pc = "returned"
    /\ jira.settings.jira_url
    /\ jira.settings.jira_pat
    /\ ~jira_enabled(jira.settings)
    /\ \E r \in DOMAIN jira.failures :
          jira.failures[r].jira_search_keywords # << >>

\* The matches the loop obtained for keyword set g, once it has been
\* through it: the reports of g all carry them.
SharesMatches(g) ==
    \A r, q \in Range(jira.keyword_to_reports[g].reports) :
        jira.failures[r].jira_matches = jira.failures[q].jira_matches

\* C22: after a pass all bug reports sharing one keyword set carry the
\* same matches list, all of whose issues are candidates of the one
\* search for that set; a report outside every searched set has none.
C22_SharedMatches ==
    mode = "jira" =>
        /\ \A g \in DOMAIN jira.keyword_to_reports :
              /\ SharesMatches(g)
              /\ \A r \in Range(jira.keyword_to_reports[g].reports) :
                    \A n \in DOMAIN jira.failures[r].jira_matches :
                        /\ jira.tasks[g].state = "done"
                        /\ jira.failures[r].jira_matches[n].key
                             \in Range(jira.tasks[g].candidates)
                        /\ jira.keyword_to_reports[g].key
                             = sorted(jira.failures[r].jira_search_keywords)
        /\ \A r \in DOMAIN jira.failures :
              (\A g \in DOMAIN jira.keyword_to_reports :
                   r \notin Range(jira.keyword_to_reports[g].reports))
                 => jira.failures[r].jira_matches = << >>

C22_Witness ==
    /\ mode = "jira"
    /\ jira.pc = "returned"
    /\ Len(jira.keyword_to_reports) = 2
    /\ Len(jira.keyword_to_reports[1].reports) = 2
    /\ jira.failures[jira.keyword_to_reports[1].reports[1]].jira_matches # << >>
    /\ jira.failures[jira.keyword_to_reports[2].reports[1]].jira_matches = << >>
    /\ jira.tasks[2].candidates = << >>


\* ---------------------------------------------------------------------
\* Claims on the pre-flight call and the aggregator summaries
\* ---------------------------------------------------------------------
\* A fan-out has been dispatched and none of its units has started.
FirstDispatch ==
    /\ batch # << >>
    /\ \A id \in DOMAIN batch : \A i \in DOMAIN batch[id].st :
          batch[id].st[i] = "waiting"

\* C24: in every run that reaches the analysis fan-out exactly one
\* pre-flight call to the backend has been made before the first unit is
\* dispatched (and a failed pre-flight call prevents the fan-out).
C24_PreflightOnce ==
    (mode = "job" /\ FirstDispatch) => root.ai_calls = 1

RECURSIVE DescendantVerdicts(_)
\* Verdicts of a list of child nodes and of everything below them.
DescendantVerdicts(children) ==
    IF children = << >> THEN 0
    ELSE Len(Head(children).failures)
           + DescendantVerdicts(Head(children).failed_children)
           + DescendantVerdicts(Tail(children))

SummaryCounts(summary, children) ==
    summary.kind = "pipeline" =>
        /\ summary.child_jobs = Len(children)
        /\ summary.code_issues + summary.product_bugs = DescendantVerdicts(children)

\* C25: the summary of every aggregator node reports the number of its
\* failed children and the total number of verdicts of all its
\* descendants at any depth.
C25_SummaryCountsDescendants ==
    mode = "job" =>
        /\ Completed =>
              SummaryCounts(root.result.summary, root.result.child_job_analyses)
        /\ \A p \in DOMAIN node :
              (NodeDone(p) /\ ~Outcome(p).exc /\ Outcome(p).val.failed_children # << >>) =>
                  SummaryCounts(Outcome(p).val.summary, Outcome(p).val.failed_children)


\* ---------------------------------------------------------------------
\* Claims on the answer of POST /analyze-failures
\* ---------------------------------------------------------------------
\* Test name and classification of each analysis of a list.
Verdicts(analyses) ==
    [i \in DOMAIN analyses |->
        <<analyses[i].test_name, analyses[i].analysis.classification>>]

RECURSIVE SuccessfulFrom(_, _)
\* The analyses of the groups from k on whose unit returned, group by
\* group in the order of the groups.
SuccessfulFrom(b, k) ==
    IF k > Len(b.coros) THEN << >>
    ELSE (IF b.out[k].exc THEN << >> ELSE Verdicts(b.out[k].val))
            \o SuccessfulFrom(b, k + 1)

AfAnswered(status) ==
    /\ mode = "failures"
    /\ af.pc = "done"
    /\ af.response.status = status

\* C27: when some group units raise and others return, the answer is
\* status completed with exactly the analyses of the groups that
\* returned, and the summary gives the number of submitted failures, of
\* unique signatures and of analyses.
C27_PartialFailure ==
    AfAnswered("completed") =>
        /\ af.http = 200
        /\ Verdicts(af.response.failures) = SuccessfulFrom(batch[FailuresId], 1)
        /\ af.response.summary.submitted = Len(af.body.failures)
        /\ af.response.summary.unique = NumSignatures(af.body.failures)
        /\ af.response.summary.analyzed = Len(af.response.failures)

C27_Witness ==
    /\ AfAnswered("completed")
    /\ \E k \in DOMAIN batch[FailuresId].out : batch[FailuresId].out[k].exc
    /\ \E k \in DOMAIN batch[FailuresId].out : ~batch[FailuresId].out[k].exc
    /\ af.response.failures # << >>

JobIds == {"job-1", "job-2"}

AnalyzeRequests ==
    [ ai_provider  : {"", "claude"},
      ai_model     : {"", "test-model"},
      html_report  : {"None", "True", "False"},
      callback_url : {"", "http://hook"} ]

\* What analyze_job gives its caller: the result, or one of the
\* exceptions the walker raises (RootRaise).
AnalyzeJobOutcomes == {"returned", "HTTPException", "ValueError", "backend"}
ReportOutcomes == {"saved", "raised"}
SendOutcomes == {"sent", "raised"}

NoRecord == [status |-> "absent", result |-> "None"]

\* Lines 139-143.
resolve_html_report(body) ==
    IF body.html_report # "None" THEN body.html_report = "True"
    ELSE env.HTML_REPORT

\* body.callback_url or settings.callback_url   (lines 63, 296)
CallbackUrl(c) ==
    IF c.body.callback_url # "" THEN c.body.callback_url
    ELSE c.settings.callback_url

deliver_resultsRaises(callback_url, outcome) ==
    IF callback_url # "" /\ outcome = "raised" THEN "raised" ELSE "returned"

\* Lines 49-69: an exception of send_callback is logged, not raised.
deliver_results(callback_url, outcome) == "returned"

\* Lines 65-69: send_callback is called when a callback URL is set; its
\* exception is logged.
Sent(c, url, outcome) ==
    IF url = "" THEN c
    ELSE [c EXCEPT !.log = IF outcome = "raised"
                           THEN @ \o <<"send_callback", "logger.exception">>
                           ELSE Append(@, "send_callback")]

\* The record of the job after save_result(job_id, url, status, result).
Saved(c, status, result) ==
    [c EXCEPT !.store[c.job_id] =
                  [status |-> save_result(@.status, status), result |-> result],
              !.history = Append(@, save_result(c.store[c.job_id].status, status)),
              !.log = Append(@, "save_result")]

\* The record of the job after update_status(job_id, status, result).
Updated(c, status, result) ==
    [c EXCEPT !.store[c.job_id] =
                  [status |-> update_status(@.status, status), result |-> result],
              !.history = Append(@, update_status(c.store[c.job_id].status, status)),
              !.log = Append(@, "update_status")]

PaFailedUnhandled(c, e) == [c EXCEPT !.pc = "done"]

\* Lines 229-231: the except branch of the background task.
PaFailed(c, e) ==
    [Updated(c, "failed", [error |-> e]) EXCEPT !.pc = "done"]

InitAnalyze ==
    /\ mode = "analyze"
    /\ jira = NoJira
    /\ batch = << >>
    /\ af = NoRequest
    /\ ci = NoCI
    /\ root = NoRoot
    /\ node = << >>
    /\ env \in [AI_PROVIDER : {"", "gemini"}, AI_MODEL : {"", "env-model"},
                HTML_REPORT : BOOLEAN]
    /\ \E sync \in BOOLEAN, body \in AnalyzeRequests, job_id \in JobIds,
          url \in {"", "http://default"} :
          call = [ fn |-> "analyze", pc |-> "received", sync |-> sync,
                   body |-> body, settings |-> [callback_url |-> url],
                   job_id |-> job_id,
                   store |-> [j \in JobIds |-> NoRecord],
                   history |-> << >>, log |-> << >>,
                   http |-> 0, response |-> [status |-> "none"] ]

AnUnresolved == ResolveProvider(call.body) = "" \/ ResolveModel(call.body) = ""

\* Lines 250 and 104-131: sync mode without provider or model.
AnReject ==
    /\ mode = "analyze"
    /\ call.pc = "received"
    /\ call.sync
    /\ AnUnresolved
    /\ call' = [call EXCEPT !.pc = "done", !.http = 400]
    /\ UNCHANGED <<jira, mode, batch, env, af, ci, root, node>>

\* Lines 252-254: sync mode, analyze_job; its exception leaves the
\* handler (HTTPException keeps its status, anything else is a 500).
AnSyncRun ==
    /\ mode = "analyze"
    /\ call.pc = "received"
    /\ call.sync
    /\ ~AnUnresolved
    /\ \E outcome \in AnalyzeJobOutcomes :
          call' = IF outcome = "returned"
                  THEN [call EXCEPT !.pc = "analyzed",
                                    !.log = Append(@, "analyze_job")]
                  ELSE [call EXCEPT !.pc = "done",
                                    !.log = Append(@, "analyze_job"),
                                    !.http = IF outcome = "HTTPException"
                                             THEN 502 ELSE 500,
                                    !.response = [status |-> "error"]]
    /\ UNCHANGED <<jira, mode, batch, env, af, ci, root, node>>

\* Lines 257-267: matcher pass, then the completed record.
AnSyncStore ==
    /\ mode = "analyze"
    /\ call.pc = "analyzed"
    /\ call.sync
    /\ call' = [Saved([call EXCEPT !.log = Append(@, "enrich")],
                      "completed", "result")
                  EXCEPT !.pc = "stored"]
    /\ UNCHANGED <<jira, mode, batch, env, af, ci, root, node>>

\* Lines 273-281: callback, optional report, answer.
AnSyncDeliver ==
    /\ mode = "analyze"
    /\ call.pc = "stored"
    /\ call.sync
    /\ \E sent \in SendOutcomes, report \in ReportOutcomes :
        LET url == CallbackUrl(call)
            c1  == Sent(call, url, sent)
        IN  call' =
              IF deliver_results(url, sent) = "raised"
              THEN [c1 EXCEPT !.pc = "done", !.http = 500,
                              !.response = [status |-> "error"]]
              ELSE IF ~resolve_html_report(call.body)
              THEN [c1 EXCEPT !.pc = "done", !.http = 200,
                              !.response = [status |-> "completed",
                                            job_id |-> call.job_id,
                                            html_report_url |-> FALSE]]
              ELSE IF report = "raised"
              THEN [c1 EXCEPT !.pc = "done", !.http = 500,
                              !.log = Append(@, "html_report"),
                              !.response = [status |-> "error"]]
              ELSE [c1 EXCEPT !.pc = "done", !.http = 200,
                              !.log = Append(@, "html_report"),
                              !.response = [status |-> "completed",
                                            job_id |-> call.job_id,
                                            html_report_url |-> TRUE]]
    /\ UNCHANGED <<jira, mode, batch, env, af, ci, root, node>>

\* Lines 283-305: async mode; the pending record, the queued task and
\* the 202 answer.
AnQueue ==
    /\ mode = "analyze"
    /\ call.pc = "received"
    /\ ~call.sync
    /\ call' = [Saved(call, "pending", "None")
                  EXCEPT !.pc = "queued",
                         !.log = Append(@, "add_task"),
                         !.http = 202,
                         !.response = [status |-> "queued",
                                       job_id |-> call.job_id,
                                       poll |-> CallbackUrl(call) = ""]]
    /\ UNCHANGED <<jira, mode, batch, env, af, ci, root, node>>

\* Lines 199-200: the background task starts.
PaStart ==
    /\ mode = "analyze"
    /\ call.pc = "queued"
    /\ call' = [Updated(call, "running", "None") EXCEPT !.pc = "running"]
    /\ UNCHANGED <<jira, mode, batch, env, af, ci, root, node>>

\* Lines 202-206: provider and model, then analyze_job.
PaAnalyze ==
    /\ mode = "analyze"
    /\ call.pc = "running"
    /\ \E outcome \in AnalyzeJobOutcomes :
          call' = IF AnUnresolved THEN PaFailed(call, "HTTPException")
                  ELSE IF outcome = "returned"
                  THEN [call EXCEPT !.pc = "analyzed",
                                    !.log = Append(@, "analyze_job")]
                  ELSE PaFailed([call EXCEPT !.log = Append(@, "analyze_job")],
                                outcome)
    /\ UNCHANGED <<jira, mode, batch, env, af, ci, root, node>>

\* Lines 208-225: matcher pass, optional report, the completed record.
PaStore ==
    /\ mode = "analyze"
    /\ call.pc = "analyzed"
    /\ ~call.sync
    /\ \E report \in ReportOutcomes :
        LET c1 == [call EXCEPT !.log = Append(@, "enrich")]
            c2 == [c1 EXCEPT !.log = Append(@, "html_report")]
        IN  call' =
              IF ~resolve_html_report(call.body)
              THEN [Updated(c1, "completed", "result") EXCEPT !.pc = "stored"]
              ELSE IF report = "raised"
              THEN PaFailed(c2, "report")
              ELSE [Updated(c2, "completed", "result with report")
                      EXCEPT !.pc = "stored"]
    /\ UNCHANGED <<jira, mode, batch, env, af, ci, root, node>>

\* Lines 227-231: the callback; an exception leaving deliver_results would
\* reach the except branch.
PaDeliver ==
    /\ mode = "analyze"
    /\ call.pc = "stored"
    /\ ~call.sync
    /\ \E sent \in SendOutcomes :
        LET url == CallbackUrl(call)
            c1  == Sent(call, url, sent)
        IN  call' = IF deliver_results(url, sent) = "raised"
                    THEN PaFailed(c1, "callback")
                    ELSE [c1 EXCEPT !.pc = "done"]
    /\ UNCHANGED <<jira, mode, batch, env, af, ci, root, node>>

NextAnalyze ==
    \/ AnReject \/ AnSyncRun \/ AnSyncStore \/ AnSyncDeliver
    \/ AnQueue \/ PaStart \/ PaAnalyze \/ PaStore \/ PaDeliver

SpecAnalyze == InitAnalyze /\ [][NextAnalyze]_vars

\* Both endpoints.
SpecApi == (InitAnalyze \/ InitFailures) /\ [][NextAnalyze \/ NextFailures]_vars

\* ---------------------------------------------------------------------
\* Claims on POST /analyze
\* ---------------------------------------------------------------------
IsPrefix(s, t) == Len(s) <= Len(t) /\ \A i \in DOMAIN s : s[i] = t[i]

IndexOf(log, e) == CHOOSE i \in DOMAIN log : log[i] = e

\* C26: an async job has its pending record stored before the task is
\* queued and is answered 202 with the job_id; the stored status then
\* only moves pending, running, completed or pending, running, failed,
\* and a completed or failed status is not written over.
C26_AsyncLifecycle ==
    (mode = "analyze" /\ ~call.sync) =>
        /\ \/ IsPrefix(call.history, <<"pending", "running", "completed">>)
           \/ IsPrefix(call.history, <<"pending", "running", "failed">>)
        /\ call.history # << >> =>
              call.store[call.job_id].status = call.history[Len(call.history)]
        /\ \A j \in JobIds \ {call.job_id} : call.store[j] = NoRecord
        /\ call.pc # "received" =>
              /\ call.http = 202
              /\ call.response.status = "queued"
              /\ call.response.job_id = call.job_id
              /\ call.log[1] = "save_result" /\ call.log[2] = "add_task"
              /\ call.history[1] = "pending"

C26_Witness ==
    /\ mode = "analyze"
    /\ ~call.sync
    /\ call.pc = "done"
    /\ call.history = <<"pending", "running", "completed">>
    /\ "send_callback" \in Range(call.log)


\* Neither the request nor the environment names a provider, or a model.
NotConfigured(body) ==
    \/ body.ai_provider = "" /\ env.AI_PROVIDER = ""
    \/ body.ai_model = "" /\ env.AI_MODEL = ""

\* C28: a request rejected up front (an empty failure list, or no
\* provider or model configured for /analyze-failures or for /analyze in
\* sync mode) is answered 400 and nothing happens for it: no record is
\* stored, no repository cloned, no analysis call made.
C28_RejectedLeavesNoTrace ==
    /\ (mode = "failures"
            /\ (af.body.failures = << >> \/ NotConfigured(af.body))) =>
          /\ af.stored = "absent"
          /\ af.repo = "none"
          /\ af.groups = << >>
          /\ batch = << >>
          /\ jira = NoJira
          /\ af.pc = "done" => af.http = 400
    /\ (mode = "analyze" /\ call.sync /\ NotConfigured(call.body)) =>
          /\ \A j \in JobIds : call.store[j] = NoRecord
          /\ call.log = << >>
          /\ call.pc = "done" => call.http = 400

C28_Witness ==
    /\ mode = "analyze"
    /\ call.sync
    /\ call.pc = "done"
    /\ call.http = 400
    /\ call.body.ai_provider = "" /\ call.body.ai_model # ""


\* ---------------------------------------------------------------------
\* storage.py: the results table
\* ---------------------------------------------------------------------
MaxSaves == 3

\* result arguments: None, or a dict given as its (key, value) pairs.
PyNone == [is_none |-> TRUE, items |-> << >>]
Dict(items) == [is_none |-> FALSE, items |-> items]

StoreResults ==
    { PyNone, Dict(<< >>), Dict(<< <<"summary", "Done">> >>),
      Dict(<< <<"error", "boom">>, <<"job_id", "job-1">> >>) }

RECURSIVE json_items(_, _)
json_items(d, i) ==
    IF i > Len(d) THEN << >>
    ELSE (IF i > 1 THEN <<",">> ELSE << >>)
            \o <<d[i][1], ":", d[i][2]>> \o json_items(d, i + 1)

\* json.dumps of a dict: the text, token by token.
json_dumps(d) == <<"{">> \o json_items(d.items, 1) \o <<"}">>

\* json.loads of such a text.
json_loads(text) ==
    Dict([i \in 1..((Len(text) + 1) \div 4) |-> <<text[4 * i - 2], text[4 * i]>>])

\* json.dumps(result) if result is not None else None   (line 60)
ResultJson(result) ==
    IF result = PyNone THEN [null |-> TRUE, text |-> << >>]
    ELSE [null |-> FALSE, text |-> json_dumps(result)]

InsertOnly(rows, row) == Append(rows, row)

\* INSERT OR REPLACE (lines 51-62): job_id is the primary key, a row
\* with the same key is deleted before the new one is inserted.
InsertOrReplace(rows, row) ==
    Append(SelectSeq(rows, LAMBDA r : r.job_id # row.job_id), row)

\* The answer None of get_result.
NotFound == [found |-> FALSE]

\* if row["result_json"]: NULL and the empty text are falsy.
HasJson(result_json) == ~result_json.null /\ result_json.text # << >>

\* Lines 75-92: the first row of the key as a dict, or None.
get_result(rows, job_id) ==
    LET found == SelectSeq(rows, LAMBDA r : r.job_id = job_id)
    IN  IF found = << >> THEN NotFound
        ELSE [ found |-> TRUE, job_id |-> found[1].job_id,
               jenkins_url |-> found[1].jenkins_url,
               status |-> found[1].status,
               result |-> IF HasJson(found[1].result_json)
                          THEN json_loads(found[1].result_json.text)
                          ELSE PyNone ]

InitStore ==
    /\ mode = "store"
    /\ jira = NoJira
    /\ batch = << >>
    /\ env = NoEnv
    /\ af = NoRequest
    /\ ci = NoCI
    /\ root = NoRoot
    /\ node = << >>
    /\ call = [ fn |-> "storage", rows |-> << >>, saves |-> 0,
                last |-> [j \in JobIds |-> [saved |-> FALSE]],
                asked |-> "none", got |-> NotFound ]

\* save_result(job_id, jenkins_url, status, result)
StSave ==
    /\ mode = "store"
    /\ call.saves < MaxSaves
    /\ \E job_id \in JobIds, url \in {"", "http://jenkins/job/a/1/"},
          status \in {"pending", "completed", "failed"},
          result \in StoreResults :
          call' = [call EXCEPT
                     !.rows = InsertOrReplace(@,
                                 [ job_id |-> job_id, jenkins_url |-> url,
                                   status |-> status,
                                   result_json |-> ResultJson(result) ]),
                     !.saves = @ + 1,
                     !.last[job_id] = [ saved |-> TRUE, jenkins_url |-> url,
                                        status |-> status, result |-> result ],
                     !.asked = "none", !.got = NotFound]
    /\ UNCHANGED <<jira, mode, batch, env, af, ci, root, node>>

\* get_result(job_id)
StGet ==
    /\ mode = "store"
    /\ \E job_id \in JobIds :
          call' = [call EXCEPT !.asked = job_id,
                               !.got = get_result(call.rows, job_id)]
    /\ UNCHANGED <<jira, mode, batch, env, af, ci, root, node>>

NextStore == StSave \/ StGet

SpecStore == InitStore /\ [][NextStore]_vars

\* C30: the table holds at most one row per job_id; get_result gives the
\* status and result of the latest save of the job_id (result None when
\* none was given) and None for a job_id never saved.
C30_LatestSaveWins ==
    mode = "store" =>
        /\ \A j \in JobIds :
              Cardinality({i \in DOMAIN call.rows : call.rows[i].job_id = j}) <= 1
        /\ call.asked # "none" =>
              IF ~call.last[call.asked].saved THEN call.got = NotFound
              ELSE /\ call.got.found
                   /\ call.got.job_id = call.asked
                   /\ call.got.status = call.last[call.asked].status
                   /\ call.got.result = call.last[call.asked].result
                   /\ call.got.jenkins_url = call.last[call.asked].jenkins_url

C30_Witness ==
    /\ mode = "store"
    /\ call.saves = MaxSaves
    /\ Len(call.rows) = 1
    /\ call.asked # "none"
    /\ call.got.found
    /\ call.got.status = "completed"
    /\ call.got.result = Dict(<< <<"summary", "Done">> >>)


\* ---------------------------------------------------------------------
\* The matcher pass of a run of analyze_job (main.py:153-182, 208-211)
\* ---------------------------------------------------------------------
\* The report of a verdict of the walker: it carries no search keywords.
TreeReport(v) ==
    [ product_bug_report |-> v.bug_report # "None",
      jira_search_keywords |-> << >>, jira_matches |-> << >> ]

RECURSIVE collect(_)
\* _collect: the verdicts of a list of nodes, each node's own verdicts
\* before those of its children.
collect(children) ==
    IF children = << >> THEN << >>
    ELSE Head(children).failures
            \o collect(Head(children).failed_children)
            \o collect(Tail(children))

\* _enrich_result_with_jira(result.failures + child_job_analyses,
\* settings), called when analyze_job has returned its result: nothing
\* happens without a configured tracker, otherwise the verdicts of the
\* whole tree are handed to enrich_with_jira_matches.
RootEnrich ==
    /\ mode = "job"
    /\ root.pc = "done"
    /\ jira = NoJira
    /\ LET all_failures == root.result.failures
                              \o collect(root.result.child_job_analyses)
       IN  \E settings \in JiraSettings :
              jira' = IF ~jira_enabled(settings)
                      THEN [pc |-> "skipped"]
                      ELSE JiraCall([i \in DOMAIN all_failures |->
                                        TreeReport(all_failures[i])],
                                    settings, FALSE)
    /\ UNCHANGED <<call, mode, batch, env, af, ci, root, node>>

\* A run through either entry point, matcher pass included.
SpecRuns ==
    (InitJob \/ InitFailures) /\ [][Next \/ RootEnrich \/ NextFailures]_vars

C23_TreeWitness ==
    /\ mode = "job"
    /\ jira.pc = "returned"
    /\ Len(jira.failures) >= 2
    /\ root.result.child_job_analyses # << >>


\* ---------------------------------------------------------------------
\* handle_jenkins_exception (analyzer.py:266-316)
\* ---------------------------------------------------------------------
MaxWords == 2

\* Fragments an error message is made of, in the spellings they come in.
Words ==
    { "Job", "does not exist", "Not Found", "not found", "404",
      "401", "Unauthorized", "403", "forbidden", "timeout" }

ExceptionTypes ==
    {"NotFoundException", "JenkinsException", "ConnectionError", "ValueError"}

\* jenkins.NotFoundException derives from jenkins.JenkinsException.
isinstance(e, class) ==
    \/ e.type = class
    \/ e.type = "NotFoundException" /\ class = "JenkinsException"

lowerIdentity(word) == word

\* str.lower on a fragment.
lower(word) ==
    CASE word = "Job" -> "job"
      [] word = "Not Found" -> "not found"
      [] word = "Unauthorized" -> "unauthorized"
      [] OTHER -> word

\* "fragment" in str(e).lower()
InMessage(fragment, e) ==
    \E i \in DOMAIN e.message : lower(e.message[i]) = fragment

HTTPException(status_code, detail) ==
    [status_code |-> status_code, detail |-> detail]

\* What handle_jenkins_exception raises for e.
handle_jenkins_exception(e) ==
    IF isinstance(e, "NotFoundException")
    THEN HTTPException(404, "not found in Jenkins")
    ELSE IF isinstance(e, "JenkinsException")
    THEN IF \/ InMessage("does not exist", e)
            \/ InMessage("not found", e)
            \/ InMessage("404", e)
         THEN HTTPException(404, "not found in Jenkins")
         ELSE IF InMessage("unauthorized", e) \/ InMessage("401", e)
         THEN HTTPException(502, "Jenkins authentication failed")
         ELSE IF InMessage("forbidden", e) \/ InMessage("403", e)
         THEN HTTPException(502, "Access denied")
         ELSE HTTPException(502, "Jenkins error")
    ELSE HTTPException(502, "Failed to connect to Jenkins")

InitHandle ==
    /\ mode = "handle"
    /\ jira = NoJira
    /\ batch = << >>
    /\ env = NoEnv
    /\ af = NoRequest
    /\ ci = NoCI
    /\ root = NoRoot
    /\ node = << >>
    /\ \E type \in ExceptionTypes, message \in SeqsUpTo(Words, MaxWords) :
          call = [ fn |-> "handle_jenkins_exception", pc |-> "called",
                   e |-> [type |-> type, message |-> message],
                   raised |-> HTTPException(0, "") ]

\* The call: every path of the function ends in a raise.
Handle ==
    /\ mode = "handle"
    /\ call.pc = "called"
    /\ call' = [call EXCEPT !.pc = "raised",
                            !.raised = handle_jenkins_exception(call.e)]
    /\ UNCHANGED <<jira, mode, batch, env, af, ci, root, node>>

NextHandle == Handle

SpecHandle == InitHandle /\ [][NextHandle]_vars

\* The message names a missing job, in any spelling.
SaysNotFound(e) ==
    \E i \in DOMAIN e.message :
        e.message[i] \in {"does not exist", "Not Found", "not found", "404"}

\* C31: handle_jenkins_exception always raises an HTTPException: 404 for
\* a NotFoundException and for a JenkinsException whose message contains
\* "does not exist", "not found" or "404" (letter case ignored), 502 in
\* every other case.
C31_AlwaysRaises404Or502 ==
    (mode = "handle" /\ call.pc # "called") =>
        /\ call.pc = "raised"
        /\ call.raised.status_code =
              IF \/ call.e.type = "NotFoundException"
                 \/ call.e.type = "JenkinsException" /\ SaysNotFound(call.e)
              THEN 404 ELSE 502

C31_Witness ==
    /\ mode = "handle"
    /\ call.pc = "raised"
    /\ call.e.type = "JenkinsException"
    /\ call.e.message = <<"401", "Not Found">>
    /\ call.raised.status_code = 404


\* ---------------------------------------------------------------------
\* Runs over builds whose build info and console both name failed children
\* ---------------------------------------------------------------------
\* Each build names at most one failed child in its build info and at most
\* one in its console, and has no test report.
DetectData ==
    [ meta : {<< >>, <<2>>, <<3>>}, console : {<< >>, <<2>>, <<3>>},
      tests : {<< >>} ]

DetectCI ==
    { data \in {Assemble(d) : d \in [Builds -> DetectData]} :
        /\ \A b \in Builds \ Reach(data, {RootBuild}) :
              data.meta[b] = << >> /\ data.console[b] = << >>
        /\ \E b \in Reach(data, {RootBuild}) :
              data.meta[b] # << >> /\ data.console[b] # << >>
        /\ RunNodes(data) <= MaxCoroutines }

InitDetect ==
    /\ mode = "job"
    /\ call = NoCall
    /\ jira = NoJira
    /\ env = NoEnv
    /\ af = NoRequest
    /\ ci \in DetectCI
    /\ batch = << >>
    /\ node = << >>
    /\ root = [ pc |-> "info", children |-> << >>, child_job_analyses |-> << >>,
                repo_path |-> "None", tests |-> << >>, ai_calls |-> 0,
                build_result |-> "unknown", fetches |-> {},
                backend_failed |-> {},
                result |-> [status |-> "none"] ]

NextDetect ==
    \/ RootInfo \/ RootConsole \/ RootSetup \/ RootGather
    \/ RootReport
    \/ JobAcquire
    \/ \E p \in DOMAIN node :
          \/ ChildStart(p) \/ ChildConsole(p) \/ ChildGather(p)
          \/ ChildReport(p) \/ ChildConsoleAI(p)

SpecDetect == InitDetect /\ [][NextDetect]_vars

\* The failed children the two sources give for a build: the build info's
\* when it names any, otherwise the console's.
ByPrecedence(job) ==
    IF ci.meta[job] # << >> THEN ci.meta[job] ELSE ci.console[job]

\* The calls dispatched for the failed children of the call at path p.
Dispatched(p) == {q \in DOMAIN node : q # RootPath /\ Front(q) = p}

\* C32: the failed children of a build are those of the build info
\* whenever it names at least one, those of the console text only when it
\* names none, and never both.
C32_MetadataBeforeConsole ==
    mode = "job" =>
        /\ root.pc \in {"children", "done"} /\ root.fetches # {"info"} =>
              /\ root.children = ByPrecedence(RootBuild)
              /\ root.children # << >> =>
                    /\ Cardinality(Dispatched(RootPath)) = Len(ByPrecedence(RootBuild))
                    /\ \A q \in Dispatched(RootPath) :
                          node[q].job = ByPrecedence(RootBuild)[Last(q)]
        /\ \A p \in DOMAIN node :
              node[p].pc = "children" =>
                 /\ node[p].children = ByPrecedence(node[p].job)
                 /\ Cardinality(Dispatched(p)) = Len(ByPrecedence(node[p].job))
                 /\ \A q \in Dispatched(p) :
                       node[q].job = ByPrecedence(node[p].job)[Last(q)]

C32_Witness ==
    /\ mode = "job"
    /\ root.pc = "done"
    /\ ci.meta[RootBuild] = <<2>> /\ ci.console[RootBuild] = <<3>>
    /\ root.children = <<2>>
    /\ \E p \in DOMAIN node :
          /\ ci.meta[node[p].job] # << >> /\ ci.console[node[p].job] # << >>
          /\ node[p].children = ci.meta[node[p].job]


\* ---------------------------------------------------------------------
\* Claims on leaves and on the depth limit
\* ---------------------------------------------------------------------
\* The call at path p has returned the analysis of a leaf build without
\* test failures: no failed child, no failed test, no fetch error.
ConsoleLeaf(p) ==
    /\ NodeDone(p)
    /\ ~Outcome(p).exc
    /\ ~DepthReached(node[p].depth, max_depth)
    /\ node[p].fetch_error = "none"
    /\ DetectChildren(ci, node[p].job) = << >>
    /\ extract_failures_from_test_report(ci, node[p].job) = << >>

\* C33: for a leaf build whose test report is absent or holds no failures
\* exactly one whole-console backend call is made and the node carries
\* exactly one verdict, labeled against the build itself.
C33_OneConsoleVerdict ==
    mode = "job" =>
        \A p \in DOMAIN node :
            ConsoleLeaf(p) =>
                /\ node[p].ai_calls = 1
                /\ TestsId(p) \notin DOMAIN batch
                /\ Len(Outcome(p).val.failures) = 1
                /\ Outcome(p).val.failures[1].test_name = "job"


\* C34: a node reached at depth >= max_depth is terminal: it carries the
\* explanatory note, no verdicts and no children, and nothing is done for
\* it: no fetch, no backend call, no fan-out, no recursion.
C34_DepthLimitedIsTerminal ==
    mode = "job" =>
        \A p \in DOMAIN node :
            node[p].depth >= max_depth =>
                /\ node[p].pc \in {"start", "done"}
                /\ node[p].ai_calls = 0
                /\ node[p].fetch_error = "none"
                /\ node[p].children = << >> /\ node[p].tests = << >>
                /\ ChildrenId(p) \notin DOMAIN batch
                /\ TestsId(p) \notin DOMAIN batch
                /\ Dispatched(p) = {}
                /\ NodeDone(p) =>
                      /\ ~Outcome(p).exc
                      /\ Outcome(p).val.job = node[p].job
                      /\ Outcome(p).val.note = "Max depth reached"
                      /\ Outcome(p).val.failures = << >>
                      /\ Outcome(p).val.failed_children = << >>

C34_Witness ==
    /\ mode = "job"
    /\ Completed
    /\ \E p \in DOMAIN node :
          /\ node[p].depth = max_depth
          /\ NodeDone(p)
          /\ DetectChildren(ci, node[p].job) # << >>
          /\ Outcome(p).val.note = "Max depth reached"


\* ---------------------------------------------------------------------
\* Claims on the concurrency of the matcher pass
\* ---------------------------------------------------------------------
SearchesId == <<"searches">>

\* Tracker searches issued and not yet answered.
InFlight == Cardinality({t \in DOMAIN jira.tasks : jira.tasks[t].state = "running"})

\* C35: the tracker searches of a matcher pass are units of a
\* run_parallel_with_limit batch, so that at most its limit, the
\* configured cap, are in flight at the same time.
C35_SearchesThroughExecutor ==
    (mode = "jira" /\ jira.pc = "searching") =>
        /\ SearchesId \in DOMAIN batch
        /\ batch[SearchesId].limit = MAX_CONCURRENT_AI_CALLS
        /\ InFlight = Cardinality(RunningIn(batch[SearchesId]))
        /\ InFlight <= batch[SearchesId].limit


\* ---------------------------------------------------------------------
\* Claims on nested fan-out
\* ---------------------------------------------------------------------
\* A dispatched unit is waiting for a slot of its batch.
UnitWaiting ==
    /\ mode = "job"
    /\ \E id \in DOMAIN batch : WaitingIn(batch[id]) # {}

\* Every unit of every batch of the run has had its slot and is over.
AllUnitsDone ==
    \A id \in DOMAIN batch : AllDone(batch[id]) /\ batch[id].semaphore = batch[id].limit

OnePerChild(nodes, kids, out) ==
    /\ Len(nodes) = Len(kids)
    /\ \A i \in DOMAIN kids :
          /\ nodes[i].job = kids[i]
          /\ out[i].exc =>
                /\ nodes[i].note = "Analysis failed"
                /\ nodes[i].failures = << >>
                /\ nodes[i].failed_children = << >>
          /\ ~out[i].exc => nodes[i] = out[i].val

\* C37: the child list of every aggregator node has exactly one node per
\* detected failed child, in detection order, node i naming detected child
\* i; for a child whose unit raised, node i is a note-only node
\* ("Analysis failed") without verdicts.
C37_OneNodePerChild ==
    mode = "job" =>
        /\ (Completed /\ root.children # << >>) =>
              OnePerChild(root.result.child_job_analyses, root.children,
                          batch[ChildrenId(RootPath)].out)
        /\ \A p \in DOMAIN node :
              (NodeDone(p) /\ ~Outcome(p).exc /\ node[p].children # << >>) =>
                  OnePerChild(Outcome(p).val.failed_children, node[p].children,
                              batch[ChildrenId(p)].out)

C37_Witness ==
    /\ Completed
    /\ Len(root.children) = 2
    /\ batch[ChildrenId(RootPath)].out[1].exc
    /\ ~batch[ChildrenId(RootPath)].out[2].exc
    /\ batch[ChildrenId(RootPath)].order = <<2, 1>>
    /\ root.result.child_job_analyses[1].note = "Analysis failed"
    /\ root.result.child_job_analyses[2].failed_children # << >>


\* ---------------------------------------------------------------------
\* Claims on the end of an async job and on the callback
\* ---------------------------------------------------------------------
\* The event loop keeps running the background task.
SpecAnalyzeLive == SpecAnalyze /\ WF_vars(NextAnalyze)

AsyncJob == mode = "analyze" /\ ~call.sync

\* The stored record of the job is final: completed with the result, or
\* failed with the text of the exception.
Settled ==
    LET rec == call.store[call.job_id] IN
    \/ rec.status = "completed" /\ rec.result \in {"result", "result with report"}
    \/ /\ rec.status = "failed"
       /\ \E e \in (AnalyzeJobOutcomes \ {"returned"}) \cup {"report"} :
             rec.result = [error |-> e]

\* C38: an async job whose background task has started ends with stored
\* status completed or failed and does not stay running; an exception of
\* the provider/model resolution, of analyze_job, of the matcher pass or
\* of the report generation gives failed with the error text stored.
C38_AsyncJobSettles ==
    /\ (AsyncJob /\ call.pc = "running") ~> (call.pc = "done" /\ Settled)
    /\ []((AsyncJob /\ call.pc \in {"stored", "done"}) => Settled)

C38_Witness ==
    /\ AsyncJob
    /\ call.pc = "done"
    /\ call.history = <<"pending", "running", "failed">>
    /\ call.store[call.job_id].result = [error |-> "report"]


\* Position of the first occurrence of an entry in the log.
FirstAt(log, e) == CHOOSE i \in DOMAIN log : log[i] = e /\ \A j \in 1..(i - 1) : log[j] # e

\* C39: the callback is sent only after the result of the run has been
\* stored with status completed, never for a failed run; an exception of
\* the delivery is swallowed and leaves the stored status completed.
C39_CallbackAfterCompleted ==
    mode = "analyze" =>
        LET rec == call.store[call.job_id]
            log == call.log
        IN  /\ "send_callback" \in Range(log) =>
                  /\ rec.status = "completed"
                  /\ call.history[Len(call.history)] = "completed"
                  /\ \A i \in DOMAIN log :
                        log[i] \in {"save_result", "update_status"} =>
                            i < FirstAt(log, "send_callback")
                  /\ Cardinality({i \in DOMAIN log : log[i] = "send_callback"}) = 1
            /\ rec.status = "failed" => "send_callback" \notin Range(log)
            /\ (call.pc = "done" /\ call.response.status = "error"
                  /\ rec.status # "completed") => "send_callback" \notin Range(log)
            /\ (call.pc = "done" /\ rec.status = "completed") =>
                  ("send_callback" \in Range(log)) = (CallbackUrl(call) # "")

C39_Witness ==
    /\ mode = "analyze"
    /\ ~call.sync
    /\ call.pc = "done"
    /\ "logger.exception" \in Range(call.log)
    /\ call.store[call.job_id].status = "completed"
    /\ call.body.callback_url = "" /\ call.settings.callback_url # ""


\* ---------------------------------------------------------------------
\* RepositoryManager (repository.py:17-75) and the runs that own one
\* (analyzer.py:1020-1177, main.py:341-407)
\* ---------------------------------------------------------------------
MaxClones == 3
NCloneIds == 2

\* The first eight characters of a uuid4: two clones of one repository may
\* draw the same one.
CloneIds == 1..NCloneIds

\* A repository URL, told apart by its scheme; "" is no URL.
RepoUrls == {"https://", "git://", "HTTPS://", "http://", "file://"}

\* str(repo_url).lower()
UrlLower(url) == IF url = "HTTPS://" THEN "https://" ELSE url

\* What git and the file system do to one clone call.
GitOutcomes == {"cloned", "mkdir raised", "clone raised"}

\* Lines 26-54: the scheme check, the directory, the entry in temp_dirs,
\* then the clone itself; exc names the exception the call leaves with.
clone(c, url, id, git) ==
    IF UrlLower(url) \notin {"https://", "git://"}
    THEN [c EXCEPT !.exc = "ValueError"]
    ELSE IF git = "mkdir raised"
    THEN [c EXCEPT !.exc = "OSError"]
    ELSE [c EXCEPT !.fs = @ \cup {id},
                   !.created = @ \cup {id},
                   !.temp_dirs = Append(@, id),
                   !.exc = IF git = "clone raised" THEN "GitCommandError" ELSE ""]

\* Lines 58-60: the loop of cleanup over the directories that exist.
RECURSIVE rmtree_each(_, _)
rmtree_each(fs, dirs) ==
    IF dirs = << >> THEN fs
    ELSE rmtree_each(fs \ {Head(dirs)}, Tail(dirs))

\* A cleanup that calls rmtree without asking whether the directory is
\* there: the first missing directory raises and ends the loop.
RECURSIVE rmtree_until_missing(_, _)
rmtree_until_missing(fs, dirs) ==
    IF dirs = << >> \/ Head(dirs) \notin fs THEN fs
    ELSE rmtree_until_missing(fs \ {Head(dirs)}, Tail(dirs))

cleanupUnchecked(c) ==
    IF Range(c.temp_dirs) \subseteq c.fs /\ Cardinality(Range(c.temp_dirs)) = Len(c.temp_dirs)
    THEN [c EXCEPT !.fs = rmtree_each(@, c.temp_dirs),
                   !.temp_dirs = << >>,
                   !.cleanups = @ + 1]
    ELSE [c EXCEPT !.fs = rmtree_until_missing(@, c.temp_dirs),
                   !.cleanups = @ + 1,
                   !.exc = "FileNotFoundError"]

\* Lines 56-61: cleanup; lines 67-75: __exit__ is cleanup, whatever the
\* exception it is given.
cleanup(c) ==
    [c EXCEPT !.fs = rmtree_each(@, c.temp_dirs),
              !.temp_dirs = << >>,
              !.cleanups = @ + 1]

InitRepo ==
    /\ mode = "repo"
    /\ jira = NoJira
    /\ batch = << >>
    /\ env = NoEnv
    /\ af = NoRequest
    /\ ci = NoCI
    /\ root = NoRoot
    /\ node = << >>
    /\ \E fn \in {"RepositoryManager", "analyze_job", "analyze_failures"},
          url \in RepoUrls \cup {""} :
          /\ fn = "RepositoryManager" => url = ""
          /\ call = [ fn |-> fn,
                      pc |-> IF fn = "RepositoryManager" THEN "open" ELSE "start",
                      tests_repo_url |-> url,
                      repo_manager |-> fn # "analyze_job" \/ url # "",
                      temp_dirs |-> << >>, fs |-> {}, created |-> {},
                      deleted |-> {}, clones |-> 0, cleanups |-> 0,
                      exc |-> "" ]

\* manager.clone(url) by the owner of the manager, in or out of a with
\* block; an exception of the call leaves the block.
RmClone ==
    /\ mode = "repo"
    /\ call.pc = "open"
    /\ call.clones < MaxClones
    /\ \E url \in RepoUrls, id \in CloneIds, git \in GitOutcomes :
          LET c == clone([call EXCEPT !.clones = @ + 1], url, id, git)
          IN  call' = IF c.exc = "" THEN c ELSE [c EXCEPT !.pc = "raising"]
    /\ UNCHANGED <<jira, mode, batch, env, af, ci, root, node>>

\* The body of the with block raises on its own.
RmRaise ==
    /\ mode = "repo"
    /\ call.pc = "open"
    /\ call' = [call EXCEPT !.pc = "raising", !.exc = "ValueError"]
    /\ UNCHANGED <<jira, mode, batch, env, af, ci, root, node>>

\* A directory of the manager is deleted behind its back (path.rmdir()).
RmDelete ==
    /\ mode = "repo"
    /\ call.pc \notin {"closed", "done"}
    /\ \E d \in Range(call.temp_dirs) \cap call.fs :
          call' = [call EXCEPT !.fs = @ \ {d}, !.deleted = @ \cup {d}]
    /\ UNCHANGED <<jira, mode, batch, env, af, ci, root, node>>

\* manager.cleanup(), or the end of the with block, normal or not.
RmExit ==
    /\ mode = "repo"
    /\ call.pc \in {"open", "raising"}
    /\ call' = [cleanup(call) EXCEPT !.pc = "closed"]
    /\ UNCHANGED <<jira, mode, batch, env, af, ci, root, node>>

\* analyzer.py:1020-1031: no manager without a URL; the clone runs in a
\* try of its own whose except keeps the message only.
RepoJobSetup ==
    /\ mode = "repo"
    /\ call.fn = "analyze_job"
    /\ call.pc = "start"
    /\ IF call.repo_manager
       THEN \E id \in CloneIds, git \in GitOutcomes :
               call' = [clone([call EXCEPT !.clones = @ + 1],
                              call.tests_repo_url, id, git)
                           EXCEPT !.pc = "body", !.exc = ""]
       ELSE call' = [call EXCEPT !.pc = "body"]
    /\ UNCHANGED <<jira, mode, batch, env, af, ci, root, node>>

\* analyzer.py:1033-1174: the analysis returns or raises.
RepoJobBody ==
    /\ mode = "repo"
    /\ call.fn = "analyze_job"
    /\ call.pc = "body"
    /\ \E exc \in {"", "HTTPException", "Exception"} :
          call' = [call EXCEPT !.pc = "finally", !.exc = exc]
    /\ UNCHANGED <<jira, mode, batch, env, af, ci, root, node>>

\* analyzer.py:1175-1177: finally, __exit__ of the manager if there is one.
RepoJobFinally ==
    /\ mode = "repo"
    /\ call.fn = "analyze_job"
    /\ call.pc = "finally"
    /\ call' = [(IF call.repo_manager THEN cleanup(call) ELSE call)
                   EXCEPT !.pc = "done"]
    /\ UNCHANGED <<jira, mode, batch, env, af, ci, root, node>>

\* main.py:342-349: the manager always exists; the clone is inside the
\* try, so its exception goes to the except branch.
RepoFailuresClone ==
    /\ mode = "repo"
    /\ call.fn = "analyze_failures"
    /\ call.pc = "start"
    /\ IF call.tests_repo_url # ""
       THEN \E id \in CloneIds, git \in GitOutcomes :
               LET c == clone([call EXCEPT !.clones = @ + 1],
                              call.tests_repo_url, id, git)
               IN  call' = [c EXCEPT !.pc = IF c.exc = "" THEN "body" ELSE "except"]
       ELSE call' = [call EXCEPT !.pc = "body"]
    /\ UNCHANGED <<jira, mode, batch, env, af, ci, root, node>>

\* main.py:351-392: the analysis and the completed record.
RepoFailuresBody ==
    /\ mode = "repo"
    /\ call.fn = "analyze_failures"
    /\ call.pc = "body"
    /\ \E exc \in {"", "Exception"} :
          call' = [call EXCEPT !.pc = IF exc = "" THEN "finally" ELSE "except",
                               !.exc = exc]
    /\ UNCHANGED <<jira, mode, batch, env, af, ci, root, node>>

\* main.py:394-404: the failed record; update_status may raise in turn.
RepoFailuresExcept ==
    /\ mode = "repo"
    /\ call.fn = "analyze_failures"
    /\ call.pc = "except"
    /\ \E exc \in {"", "StorageError"} :
          call' = [call EXCEPT !.pc = "finally", !.exc = exc]
    /\ UNCHANGED <<jira, mode, batch, env, af, ci, root, node>>

\* main.py:406-407: finally, cleanup.
RepoFailuresFinally ==
    /\ mode = "repo"
    /\ call.fn = "analyze_failures"
    /\ call.pc = "finally"
    /\ call' = [cleanup(call) EXCEPT !.pc = "done"]
    /\ UNCHANGED <<jira, mode, batch, env, af, ci, root, node>>

NextRepo ==
    \/ RmClone
    \/ RmRaise
    \/ RmDelete
    \/ RmExit
    \/ RepoJobSetup
    \/ RepoJobBody
    \/ RepoJobFinally
    \/ RepoFailuresClone
    \/ RepoFailuresBody
    \/ RepoFailuresExcept
    \/ RepoFailuresFinally

SpecRepo == InitRepo /\ [][NextRepo]_vars

\* The run that owns the manager has ended.
RunEnded == mode = "repo" /\ call.pc \in {"closed", "done"}

\* C40: after cleanup or the end of the with block, normal or by
\* exception, after a failed clone and with a directory already deleted,
\* no directory created by clone exists and temp_dirs is empty;
\* analyze_job and analyze_failures have run this cleanup whenever they
\* end, whether they return or raise.
C40_ClonesNeverOutliveRun ==
    mode = "repo" =>
        /\ (call.created \cap call.fs) \subseteq Range(call.temp_dirs)
        /\ RunEnded =>
              /\ call.created \cap call.fs = {}
              /\ call.temp_dirs = << >>
              /\ call.exc \notin {"FileNotFoundError"}
              /\ call.cleanups = IF call.repo_manager THEN 1 ELSE 0
        /\ ~call.repo_manager => call.created = {}

C40_Witness ==
    /\ RunEnded
    /\ call.fn = "RepositoryManager"
    /\ call.exc = "GitCommandError"
    /\ call.deleted # {}
    /\ Cardinality(call.created) = 2

C40_RunWitness ==
    /\ RunEnded
    /\ call.fn = "analyze_failures"
    /\ call.exc = "StorageError"
    /\ call.created # {}

====
